---------------------------- MODULE Spec2Model ----------------------------
(***************************************************************************)
(* The CodeBuddy provider adapter of new-api: its upstream retry           *)
(* controller (key rotation, cooldown bookkeeping, sensitive-content       *)
(* retry) and the stream forwarding loop, followed by the streaming        *)
(* transcoder that folds upstream deltas into Claude-shaped events.        *)
(*                                                                         *)
(* The repository holds several revisions of the adapter.  The model      *)
(* carries the revision as the state variable `variant`, fixed at Init:    *)
(*   "ContentFilter"  src/relay/channel/codebuddy/adaptor.go               *)
(*   "QuotaIOA"       src/unnamed/part_004, lines 1-674                    *)
(*   "Quota"          src/unnamed/part_004, lines 676-1239                 *)
(*   "Buffered"       src/unnamed/part_003                                 *)
(***************************************************************************)
EXTENDS Integers, Sequences, FiniteSets, TLC

\* ------------------------------------------------------------------ bounds
\* Largest number of keys of the channel.
MaxKeys == 2
\* Last value of the wall clock (Unix time, abstracted to small ticks).
MaxTime == 2
\* Most chunks one upstream response body carries.
MaxChunks == 2
\* deltas fed to the transcoder for one response, and upstream tool-call slots
MaxDeltas == 3
MaxSlots == 2
MaxRequests == 2
\* Largest number of keys where the key switch is looked at on its own.
MaxSwitchKeys == 3

\* Records of a backup file, all tables together.
MaxRecords == 3
ToolSlots == 0 .. (MaxSlots - 1)

\* --------------------------------------------------------------- constants
Variants == {"ContentFilter", "QuotaIOA", "Quota", "Buffered"}

\* const MaxRateLimitRetries (5 in adaptor.go, 3 in both revisions of part_004)
MaxRateLimitRetries(v) == IF v = "ContentFilter" THEN 5 ELSE 3

\* const MaxSensitiveRetries (10 in adaptor.go, 3 in part_003)
MaxSensitiveRetries(v) == IF v = "Buffered" THEN 3 ELSE 10

\* Revisions with a 429 handler, a 401 handler, a sensitive-content retry.
HasRateLimitHandler(v) == v \in {"ContentFilter", "QuotaIOA", "Quota"}
HasUnauthorizedHandler(v) == v \in {"QuotaIOA", "Quota"}
HasSensitiveRetry(v) == v \in {"ContentFilter", "Buffered"}

\* common.ChannelStatusEnabled and common.ChannelStatusAutoDisabled
ChannelStatusEnabled == "enabled"
ChannelStatusAutoDisabled == "auto_disabled"

\* types.ErrorCode values the adapter returns
ErrorCodeChannelAllKeysRateLimited == "channel:all_keys_rate_limited"
ErrorCodeChannelInvalidKey == "channel:invalid_key"
ErrorCodeRateLimited == "rate_limited"
ErrorCodeBadResponse == "bad_response"
ErrorCodeBadRequestBody == "bad_request_body"
ErrorCodeDoRequestFailed == "do_request_failed"
ErrorCodeSensitiveWordsDetected == "sensitive_words_detected"
ErrorCodeReadRequestBodyFailed == "read_request_body_failed"

\* What the upstream can answer to one request.
RespKinds == {"ok200", "quota429", "other429", "unavail429", "hang429",
              "unauth401", "format401", "hang401", "neterr"}

VARIABLES
    variant,        \* which revision of the adapter runs
    nKeys,          \* len(ch.GetKeys())
    statusList,     \* ch.ChannelInfo.MultiKeyStatusList
    cooldownUntil,  \* ch.ChannelInfo.MultiKeyCooldownUntil (0: no entry)
    pollingIndex,   \* ch.ChannelInfo.MultiKeyPollingIndex
    now,            \* time.Now().Unix()
    keyIndex,       \* info.ChannelMultiKeyIndex
    apiKey,         \* info.ApiKey
    isIOA,          \* isIOAModel(info.UpstreamModelName)
    relayFormat,    \* info.RelayFormat
    rlRetry,        \* c.GetInt("codebuddy_ratelimit_retry")
    sensRetry,      \* c.GetInt("codebuddy_sensitive_retry")
    reissued,       \* DoRequest was called by handleSensitiveRetry
    pc,             \* position of the request's goroutine
    respKind,       \* the upstream response being handled
    result,         \* what the adapter returned to its caller
    cancelled,      \* c.Request.Context().Done() has fired
    stream,         \* locals of the stream callback's closure
    clientOut,      \* what was handed to the client writer, in order
    sends,          \* upstream requests sent (channel.DoApiRequest calls)
    rotations,      \* key rotations made after a 429
    onlyQuota,      \* every upstream answer so far was a 429 with code 14013
    limited,        \* the key slots that answered this request with a 429
                    \* the revision retries on
    disabledReason, \* ch.ChannelInfo.MultiKeyDisabledReason ("": no entry)
    disabledTime,   \* ch.ChannelInfo.MultiKeyDisabledTime (0: no entry)
    respBody,       \* the upstream response bodies and the Close calls on them
    cachedBody,     \* c.Get(KeyCodeBuddyUpstreamRequest)
    reqBody,        \* bodyBytes of the DoRequest call that is running
    sentBody        \* the body of the latest upstream request

\* Requests that run at the same time on one channel, and the channel's store.
VARIABLES
    lock,           \* model.GetChannelPollingLock(id): 0 free, else its holder
    req,            \* per concurrent request: position, key slot, locals
    crashed,        \* the runtime stopped the process (concurrent map access)
    saved,          \* the key state ch.SaveChannelInfo() last wrote
    allocated       \* which of ChannelInfo's maps are not nil

\* The import of a backup file (ImportBackup of the backup controller).
VARIABLES
    importIn,       \* the request: conflict_strategy, dry_run, the backup file
    imp,            \* ImportBackup's position, locals and transaction
    db              \* rows of each table this import changed for good

\* The streaming transcoder (OpenAI deltas to Claude events) of one response.
VARIABLES
    conv,           \* the response's StreamConversionState
    events,         \* the target-protocol events emitted so far
    fed,            \* the upstream deltas consumed so far
    signed          \* the thinking blocks that were open when a signature came

adaptorVars == <<variant, nKeys, statusList, cooldownUntil, pollingIndex, now,
                 keyIndex, apiKey, isIOA, relayFormat, rlRetry, sensRetry,
                 reissued, pc, respKind, result, cancelled, stream, clientOut,
                 sends, rotations, onlyQuota, limited, disabledReason, disabledTime,
                 respBody, cachedBody, reqBody, sentBody,
                 importIn, imp, db>>

convVars == <<conv, events, fed, signed>>

lockVars == <<lock, req, crashed, saved, allocated>>

vars == <<adaptorVars, convVars, lockVars>>

chanVars == <<statusList, cooldownUntil, pollingIndex>>
infoVars == <<keyIndex, apiKey>>
importVars == <<importIn, imp, db>>

\* What no step of a relayed request changes.
fixedVars == <<variant, nKeys, isIOA, relayFormat, importVars>>
disableVars == <<disabledReason, disabledTime>>
bodyVars == <<cachedBody, reqBody, sentBody>>

KeySlots == 0 .. (nKeys - 1)

\* keys[i] of ch.GetKeys(): every slot holds its own key.
KeyAt(i) == i

\* The response bodies of one request: open counts the bodies the adapter
\* holds and has not closed, deferred the stream handlers entered and not yet
\* returned (each closes its body when it returns), over the Close calls
\* made on a body that was closed already.
NoBody == [open |-> 0, deferred |-> 0, over |-> 0]

\* channel.DoApiRequest returned a response.
Obtained(b) == [b EXCEPT !.open = @ + 1]

\* resp.Body.Close() on the body in hand
Closed(b) == [b EXCEPT !.open = @ - 1]

\* resp.Body.Close() on that body once more
ClosedAgain(b) == [b EXCEPT !.over = @ + 1]

\* defer service.CloseResponseBodyGracefully(resp)
Deferred(b) == [b EXCEPT !.deferred = @ + 1]

\* The call returns to the relay layer through the stream handlers entered.
Unwound(b) == [b EXCEPT !.open = @ - b.deferred, !.deferred = 0]

\* readResponseBodyWithTimeout followed by the caller's Close: a read that
\* does not end within the 10 seconds closes the body itself.
ReadAndClosed(b, timedOut) ==
    IF timedOut THEN ClosedAgain(Closed(b)) ELSE Closed(b)

\* A request body, by the protocol it is written in.
Body(format) == [format |-> format]

NoBytes == [format |-> "none"]

\* What the relay layer hands to DoRequest: the request as ConvertClaudeRequest
\* or ConvertOpenAIRequest returned it, in the upstream's (OpenAI) format.
ConvertedBody == Body("openai")

\* common.GetRequestBody(c): the body the client sent, in the client's format.
InboundBody == Body(relayFormat)

\* DoRequest keeps its body under KeyCodeBuddyUpstreamRequest in adaptor.go
\* and part_003; part_004 has no such cache.
CachesBody(v) == v \in {"ContentFilter", "Buffered"}

\* The body handleSensitiveRetry re-issues the request with: adaptor.go the
\* cached upstream body (the client's when there is none), part_003 the
\* client's.
RetryBody ==
    IF variant = "ContentFilter" /\ cachedBody # NoBytes THEN cachedBody
    ELSE InboundBody

NoResult == [kind |-> "none", inner |-> "none", skipRetry |-> FALSE]

\* An error of DoRequest reaches the caller as it is on the first call; one
\* raised inside the DoRequest that handleSensitiveRetry re-issued is wrapped
\* into ErrorCodeDoRequestFailed by handleSensitiveRetry.
DoRequestError(code, skip) ==
    [kind |-> IF reissued THEN ErrorCodeDoRequestFailed ELSE code,
     inner |-> code,
     skipRetry |-> IF reissued THEN FALSE ELSE skip]

\* The closure's locals as the stream handler starts; lastStreamData and
\* bufferedItems hold chunk numbers (0: the empty string), n counts the chunks
\* the scanner delivered and forwarded the calls of HandleStreamFormat;
\* streamItems are the non-empty chunks delivered, unparsedItems the ones of
\* them common.Unmarshal fails on.
NoStream == [headersSet |-> FALSE, firstChunkProcessed |-> FALSE,
             detectionPassed |-> FALSE, lastStreamData |-> 0,
             bufferedItems |-> <<>>, n |-> 0, forwarded |-> 0,
             unparsedItems |-> {}, streamItems |-> <<>>]

\* Deadlines later than now: getNextMonthFirstDay(), time.Now().Add(1h).
FutureTimes == (now + 1) .. (MaxTime + 1)

\* ---------------------------------------------------------------- key state
\* The slot test of switchToNextAvailableKey's loop body, on cooldown map cd:
\* not disabled, and not in cooldown (part_004's first revision skips the
\* cooldown test for an -ioa model).
KeyEligible(cd, k) ==
    /\ statusList[k] = ChannelStatusEnabled
    /\ \/ (variant = "QuotaIOA" /\ isIOA)
       \/ ~(cd[k] > now)

\* A key switch that takes the last eligible slot of the cyclic order.
SwitchTargetFromLast(cd, currentIndex) ==
    IF nKeys <= 1 THEN -1
    ELSE LET offs == {i \in 1 .. (nKeys - 1) :
                         KeyEligible(cd, (currentIndex + i) % nKeys)}
         IN  IF offs = {} THEN -1
             ELSE (currentIndex
                   + (CHOOSE i \in offs : \A j \in offs : j <= i)) % nKeys

\* switchToNextAvailableKey: the first eligible slot in the order
\* (currentIndex + i) % len(keys), i = 1 .. len(keys) - 1; -1 when it
\* returns an error (one key only, or no eligible slot).
SwitchTargetFrom(cd, currentIndex) ==
    IF nKeys <= 1 THEN -1
    ELSE LET offs == {i \in 1 .. (nKeys - 1) :
                         KeyEligible(cd, (currentIndex + i) % nKeys)}
         IN  IF offs = {} THEN -1
             ELSE (currentIndex
                   + (CHOOSE i \in offs : \A j \in offs : i <= j)) % nKeys

\* switchToNextAvailableKey of the request the adapter variables describe.
SwitchTarget(cd) == SwitchTargetFrom(cd, keyIndex)

\* What a successful switchToNextAvailableKey assigns.
SwitchTo(next) ==
    /\ keyIndex' = next
    /\ apiKey' = KeyAt(next)
    /\ pollingIndex' = (next + 1) % nKeys

\* setKeyCooldown
SetKeyCooldown(cd, k, t) == [cd EXCEPT ![k] = t]

\* The key state that ch.SaveChannelInfo() writes to the store.
KeyState ==
    [statusList |-> statusList, cooldownUntil |-> cooldownUntil,
     disabledReason |-> disabledReason, disabledTime |-> disabledTime]

\* A request that is not running.
IdleRequest == [pc |-> "idle", key |-> 0, used |-> 0, answer |-> "none",
                sawNil |-> FALSE, inCooldown |-> FALSE, after |-> "none"]

\* No other request runs on the channel; the store is followed only where
\* requests run side by side.
NoConcurrency ==
    /\ lock = 0
    /\ req = [p \in 1 .. MaxRequests |-> IdleRequest]
    /\ crashed = FALSE
    /\ saved = <<>>
    /\ allocated = [cooldown |-> TRUE, status |-> TRUE]

\* ------------------------------------------------------------------- Init
\* A request enters the adapter with the key the channel layer picked, in a
\* channel whose key state earlier requests may have left in any shape.
\* A response's transcoder state before its first delta.
InitialConversionState ==
    [currentBlockIndex |-> -1,
     blockIndexCounter |-> 0,
     lastBlockType |-> "none",
     toolCallIndexToBlockIndex |-> [slot \in ToolSlots |-> -1],
     lastToolCallIndex |-> -1,
     hasBlockStarted |-> FALSE,
     thinkingSignature |-> "",
     finishReason |-> "",
     done |-> FALSE]

\* The tables of a backup, in the order ImportBackup takes them.
Tables == <<"users", "channels", "tokens", "options", "prefill_groups">>

TableSet == {Tables[i] : i \in 1 .. Len(Tables)}

\* No row of any table written.
NoWrites == [t \in TableSet |-> 0]

\* A backup file with no record in any table.
NoFile == [t \in TableSet |-> <<>>]

\* The counters of an ImportResult before the first record.
NoCounts == [created |-> 0, updated |-> 0, skipped |-> 0, failed |-> 0]

\* ImportBackup's locals before the request is read.
NoLocals ==
    [pc |-> "start", table |-> 0, pos |-> 0, result |-> NoCounts,
     results |-> <<>>, processedKeys |-> {}, tx |-> "none",
     writes |-> NoWrites, response |-> "none"]

\* No backup is being imported.
NoImport ==
    /\ importIn = [strategy |-> "skip", dryRun |-> FALSE, file |-> NoFile]
    /\ imp = [NoLocals EXCEPT !.pc = "idle"]
    /\ db = NoWrites

ConvInit ==
    /\ conv = InitialConversionState
    /\ events = <<>>
    /\ fed = <<>>
    /\ signed = {}

Init ==
    /\ ConvInit
    /\ NoImport
    /\ variant \in Variants
    /\ nKeys \in 1 .. MaxKeys
    /\ statusList \in [0 .. (nKeys - 1) ->
                          {ChannelStatusEnabled, ChannelStatusAutoDisabled}]
    /\ cooldownUntil \in {cd \in [0 .. (nKeys - 1) ->
                                      {0, MaxTime, MaxTime + 1}] :
                            \A k \in 0 .. (nKeys - 1) :
                                statusList[k] = ChannelStatusAutoDisabled
                                    => cd[k] = 0}
    /\ pollingIndex = 0
    /\ now = 1
    /\ keyIndex = 0
    /\ statusList[0] = ChannelStatusEnabled
    /\ apiKey = KeyAt(keyIndex)
    /\ isIOA \in (IF variant = "QuotaIOA" THEN BOOLEAN ELSE {FALSE})
    /\ relayFormat \in {"claude", "openai"}
    /\ rlRetry = 0
    /\ sensRetry = 0
    /\ reissued = FALSE
    /\ pc = "start"
    /\ respKind = "none"
    /\ result = NoResult
    /\ cancelled = FALSE
    /\ stream = NoStream
    /\ clientOut = <<>>
    /\ sends = 0
    /\ rotations = 0
    /\ onlyQuota = TRUE
    /\ limited = {}
    /\ respBody = NoBody
    /\ cachedBody = NoBytes
    /\ reqBody = NoBytes
    /\ sentBody = NoBytes
    /\ disabledReason =
           [k \in 0 .. (nKeys - 1) |->
               IF statusList[k] = ChannelStatusAutoDisabled
               THEN "earlier" ELSE ""]
    /\ disabledTime = [k \in 0 .. (nKeys - 1) |-> 0]
    /\ NoConcurrency

\* ---------------------------------------------------------------- DoRequest
\* DoRequest: read the body (and cache it), enter doRequestWithRateLimitRetry.
DoRequest ==
    /\ pc = "start"
    /\ pc' = "ratelimit"
    /\ UNCHANGED <<fixedVars, convVars, lockVars, sentBody, respBody, disableVars,
                   chanVars, infoVars, now, rlRetry, sensRetry,
                   reissued, respKind, result, cancelled, stream, clientOut,
                   sends, rotations, onlyQuota, limited>>
    /\ reqBody' = ConvertedBody
    /\ cachedBody' = IF CachesBody(variant) THEN ConvertedBody ELSE cachedBody

\* ensureKeyNotInCooldown, which only part_004's first revision has and only
\* runs for a model that is not an -ioa model; elsewhere the send follows.
ensureKeyNotInCooldown ==
    /\ pc = "ratelimit"
    /\ IF variant = "QuotaIOA" /\ ~isIOA /\ cooldownUntil[keyIndex] > now
       THEN IF SwitchTarget(cooldownUntil) = -1
            THEN /\ pc' = "done"
                 /\ result' = DoRequestError(ErrorCodeChannelInvalidKey, FALSE)
                 /\ UNCHANGED <<chanVars, infoVars>>
            ELSE /\ pc' = "send"
                 /\ SwitchTo(SwitchTarget(cooldownUntil))
                 /\ UNCHANGED <<statusList, cooldownUntil, result>>
       ELSE /\ pc' = "send"
            /\ UNCHANGED <<chanVars, infoVars, result>>
    /\ UNCHANGED <<fixedVars, convVars, lockVars, bodyVars, disableVars,
                   now, rlRetry, sensRetry, reissued, respKind,
                   cancelled, stream, clientOut, sends, rotations, onlyQuota, limited>>
    /\ respBody' = IF pc' = "done" THEN Unwound(respBody) ELSE respBody

\* Where the adapter goes with an upstream answer: its 429 handler, its 401
\* handler, or back to the caller of DoRequest.  The first call's caller hands
\* only a 200 on to DoResponse; handleSensitiveRetry hands on whatever came.
AfterResponse(k) ==
    IF k = "neterr" THEN "done"
    ELSE IF k \in {"quota429", "other429", "unavail429", "hang429"}
              /\ HasRateLimitHandler(variant) THEN "handle429"
    ELSE IF k \in {"unauth401", "format401", "hang401"}
              /\ HasUnauthorizedHandler(variant) THEN "handle401"
    ELSE IF k = "ok200" \/ reissued THEN "response"
    ELSE "done"

\* The 429 bodies the revision's handler rotates keys on: adaptor.go every
\* 429 but code 14003, part_004 the ones that carry code 14013.
Retryable429(v, k) ==
    IF v = "ContentFilter" THEN k \in {"quota429", "other429"}
    ELSE k = "quota429"

\* channel.DoApiRequest: one upstream request with info.ApiKey, and its answer.
DoApiRequest ==
    /\ pc = "send"
    /\ sends' = sends + 1
    /\ sentBody' = reqBody
    /\ \E k \in RespKinds :
         /\ respKind' = k
         /\ pc' = AfterResponse(k)
         /\ onlyQuota' = (onlyQuota /\ k = "quota429")
         /\ limited' = IF Retryable429(variant, k)
                       THEN limited \cup {keyIndex} ELSE limited
         /\ result' = IF AfterResponse(k) # "done" THEN result
                      ELSE IF k = "neterr"
                           THEN DoRequestError("network", FALSE)
                           ELSE [kind |-> "upstream_status", inner |-> k,
                                 skipRetry |-> FALSE]
         /\ respBody' = IF AfterResponse(k) = "done" THEN Unwound(respBody)
                        ELSE Obtained(respBody)
    /\ UNCHANGED <<fixedVars, convVars, lockVars, cachedBody, reqBody, disableVars,
                   chanVars, infoVars, now, rlRetry, sensRetry,
                   reissued, cancelled, stream, clientOut, rotations>>

\* ------------------------------------------------------------ 429 handling
\* The rate-limit handler with one retry too many.
AtRetryCapOffByOne(v, retryCount) == retryCount > MaxRateLimitRetries(v)

\* "retryCount >= MaxRateLimitRetries": no retry is left.
AtRetryCap(v, retryCount) == retryCount >= MaxRateLimitRetries(v)

\* The handler has switched to slot next: the answer it read is dropped and
\* doRequestWithRateLimitRetry is entered again.
Rotate(next) ==
    /\ pc' = "ratelimit"
    /\ SwitchTo(next)
    /\ respKind' = "none"
    /\ UNCHANGED result

\* The handler gives up: DoRequest returns the error.
FailRequest(code, skip) ==
    /\ pc' = "done"
    /\ result' = DoRequestError(code, skip)

\* The reset time adaptor.go puts on the key: the one parsed from the error
\* body, which may have passed already (now) or lie ahead of the whole run,
\* as the default of one hour ahead does.
ResetTimes == {now, MaxTime + 1}

\* handleRateLimitInRequest of adaptor.go: the body is read with io.ReadAll,
\* which has no time limit, so a body that never ends is never handled; then
\* the body is closed and the cooldown is set from the parsed reset time
\* (any time) or one hour ahead, then the counter, then the rotation.
handleRateLimitContentFilter ==
    /\ pc = "handle429"
    /\ variant = "ContentFilter"
    /\ respKind # "hang429"
    /\ IF respKind = "unavail429"
       THEN /\ FailRequest(ErrorCodeBadResponse, FALSE)
            /\ UNCHANGED <<chanVars, infoVars, rlRetry, rotations, respKind>>
       ELSE \E resetTime \in ResetTimes :
            LET cd == SetKeyCooldown(cooldownUntil, keyIndex, resetTime)
            IN  /\ cooldownUntil' = cd
                /\ UNCHANGED statusList
                /\ IF AtRetryCap(variant, rlRetry)
                   THEN /\ FailRequest(ErrorCodeChannelAllKeysRateLimited,
                                       FALSE)
                        /\ UNCHANGED <<pollingIndex, infoVars, rlRetry,
                                       rotations, respKind>>
                   ELSE /\ rlRetry' = rlRetry + 1
                        /\ IF SwitchTarget(cd) = -1
                           THEN /\ FailRequest(
                                       ErrorCodeChannelAllKeysRateLimited,
                                       FALSE)
                                /\ UNCHANGED <<pollingIndex, infoVars,
                                               rotations, respKind>>
                           ELSE /\ Rotate(SwitchTarget(cd))
                                /\ rotations' = rotations + 1
    /\ UNCHANGED <<fixedVars, convVars, lockVars, bodyVars, disableVars,
                   now, sensRetry, reissued, cancelled,
                   stream, clientOut, sends, onlyQuota, limited>>
    /\ respBody' = IF pc' = "done" THEN Unwound(Closed(respBody)) ELSE Closed(respBody)

\* retryWithNewKey of part_004, on cooldown map cd: the cap, then the
\* rotation, then the counter.  capCode/capSkip is the error at the cap,
\* switchCode the error when no key can be selected.
retryWithNewKey(cd, capCode, capSkip, switchCode) ==
    IF AtRetryCap(variant, rlRetry)
    THEN /\ FailRequest(capCode, capSkip)
         /\ UNCHANGED <<pollingIndex, infoVars, rlRetry, rotations, respKind>>
    ELSE IF SwitchTarget(cd) = -1
    THEN /\ FailRequest(switchCode, FALSE)
         /\ UNCHANGED <<pollingIndex, infoVars, rlRetry, rotations, respKind>>
    ELSE /\ Rotate(SwitchTarget(cd))
         /\ rlRetry' = rlRetry + 1
         /\ rotations' = rotations + 1

\* handleRateLimitInRequest of part_004's first revision: code 14013 sets the
\* cooldown to the first day of next month (not for an -ioa model) and
\* retries; any other 429 is returned as rate limited.
handleRateLimitQuotaIOA ==
    /\ pc = "handle429"
    /\ variant = "QuotaIOA"
    /\ IF respKind = "quota429"
       THEN \E resetTime \in FutureTimes :
            LET cd == IF isIOA THEN cooldownUntil
                      ELSE SetKeyCooldown(cooldownUntil, keyIndex, resetTime)
            IN  /\ cooldownUntil' = cd
                /\ retryWithNewKey(cd, ErrorCodeRateLimited, TRUE,
                                   ErrorCodeChannelInvalidKey)
       ELSE /\ FailRequest(ErrorCodeRateLimited, FALSE)
            /\ UNCHANGED <<cooldownUntil, pollingIndex, infoVars, rlRetry,
                           rotations, respKind>>
    /\ UNCHANGED <<fixedVars, convVars, lockVars, bodyVars, disableVars,
                   statusList, now, sensRetry, reissued,
                   cancelled, stream, clientOut, sends, onlyQuota, limited>>
    /\ respBody' = IF pc' = "done"
                 THEN Unwound(ReadAndClosed(respBody, respKind = "hang429"))
                 ELSE ReadAndClosed(respBody, respKind = "hang429")

\* A handler that takes every 429 for an exhausted quota.
handleRateLimitQuotaEvery429 ==
    /\ pc = "handle429"
    /\ variant = "Quota"
    /\ \E resetTime \in FutureTimes :
         LET cd == SetKeyCooldown(cooldownUntil, keyIndex, resetTime)
         IN  /\ cooldownUntil' = cd
             /\ retryWithNewKey(cd, ErrorCodeChannelAllKeysRateLimited,
                                FALSE, ErrorCodeChannelAllKeysRateLimited)
    /\ UNCHANGED <<fixedVars, convVars, lockVars, bodyVars, disableVars,
                   statusList, now, sensRetry, reissued,
                   cancelled, stream, clientOut, sends, onlyQuota, limited>>
    /\ respBody' = IF pc' = "done"
                 THEN Unwound(ReadAndClosed(respBody, respKind = "hang429"))
                 ELSE ReadAndClosed(respBody, respKind = "hang429")

\* handleRateLimitInRequest of part_004's second revision.
handleRateLimitQuota ==
    /\ pc = "handle429"
    /\ variant = "Quota"
    /\ IF respKind = "quota429"
       THEN \E resetTime \in FutureTimes :
            LET cd == SetKeyCooldown(cooldownUntil, keyIndex, resetTime)
            IN  /\ cooldownUntil' = cd
                /\ retryWithNewKey(cd, ErrorCodeChannelAllKeysRateLimited,
                                   FALSE, ErrorCodeChannelAllKeysRateLimited)
       ELSE /\ FailRequest(ErrorCodeRateLimited, FALSE)
            /\ UNCHANGED <<cooldownUntil, pollingIndex, infoVars, rlRetry,
                           rotations, respKind>>
    /\ UNCHANGED <<fixedVars, convVars, lockVars, bodyVars, disableVars,
                   statusList, now, sensRetry, reissued,
                   cancelled, stream, clientOut, sends, onlyQuota, limited>>
    /\ respBody' = IF pc' = "done"
                 THEN Unwound(ReadAndClosed(respBody, respKind = "hang429"))
                 ELSE ReadAndClosed(respBody, respKind = "hang429")

\* A 401 handler that disables the key before it looks for "invalid_format".
handleUnauthorizedDisableFirst ==
    /\ pc = "handle401"
    /\ statusList' = [statusList EXCEPT
                         ![keyIndex] = ChannelStatusAutoDisabled]
    /\ disabledReason' = [disabledReason EXCEPT
                             ![keyIndex] = "401 Unauthorized"]
    /\ disabledTime' = [disabledTime EXCEPT ![keyIndex] = now]
    /\ IF respKind = "format401"
       THEN FailRequest(ErrorCodeBadRequestBody, FALSE)
       ELSE FailRequest(ErrorCodeChannelInvalidKey, FALSE)
    /\ UNCHANGED <<fixedVars, convVars, lockVars, bodyVars,
                   cooldownUntil, pollingIndex, infoVars, now,
                   rlRetry, sensRetry, reissued, respKind, cancelled, stream,
                   clientOut, sends, rotations, onlyQuota, limited>>
    /\ respBody' = Unwound(ReadAndClosed(respBody, respKind = "hang401"))

\* handleUnauthorizedInRequest with disableCurrentKey (both revisions of
\* part_004): a body with "invalid_format" is a bad request, any other 401
\* disables the key slot in use.
handleUnauthorizedInRequest ==
    /\ pc = "handle401"
    /\ IF respKind = "format401"
       THEN /\ FailRequest(ErrorCodeBadRequestBody, FALSE)
            /\ UNCHANGED <<statusList, disableVars>>
       ELSE /\ statusList' = [statusList EXCEPT
                                 ![keyIndex] = ChannelStatusAutoDisabled]
            /\ disabledReason' = [disabledReason EXCEPT
                                     ![keyIndex] = "401 Unauthorized"]
            /\ disabledTime' = [disabledTime EXCEPT ![keyIndex] = now]
            /\ FailRequest(ErrorCodeChannelInvalidKey, FALSE)
    /\ UNCHANGED <<fixedVars, convVars, lockVars, bodyVars,
                   cooldownUntil, pollingIndex, infoVars, now,
                   rlRetry, sensRetry, reissued, respKind, cancelled, stream,
                   clientOut, sends, rotations, onlyQuota, limited>>
    /\ respBody' = Unwound(ReadAndClosed(respBody, respKind = "hang401"))

\* ---------------------------------------------------------------- streaming
\* One thing handed to the client writer.
Event(type, index, text) == [type |-> type, index |-> index, text |-> text]

\* openai.HandleStreamFormat on chunk number i (0: the empty string).
Forwarded(i) == Event("chunk", i, "upstream")

\* The chunks a response body can carry, by what the revision's callback
\* reads in them: "filter" has finish_reason content_filter, "marker" makes
\* the accumulated text contain SensitiveContentMessage, "long" takes the
\* accumulated text to SensitiveCheckMaxContentLength, "junk" does not parse,
\* "empty" has len(data) = 0.
ChunkKinds(v) ==
    IF v = "ContentFilter" THEN {"data", "filter", "junk", "empty"}
    ELSE IF v = "Buffered" THEN {"short", "long", "marker", "junk", "empty"}
    ELSE {"data", "empty"}

\* DoResponse: the cancellation check, part_003's peek at the first bytes,
\* then the stream handler.
DoResponse ==
    /\ pc = "response"
    /\ IF cancelled
       THEN /\ pc' = "done"
            /\ result' = NoResult
            /\ UNCHANGED stream
       ELSE \E peek \in (IF variant = "Buffered"
                         THEN {"clean", "marker", "failed"} ELSE {"clean"}) :
            IF peek = "marker"
            THEN /\ pc' = "sensitive"
                 /\ stream' = NoStream
                 /\ UNCHANGED result
            ELSE IF peek = "failed"
            THEN /\ pc' = "done"
                 /\ result' = [kind |-> ErrorCodeBadResponse,
                               inner |-> ErrorCodeBadResponse,
                               skipRetry |-> FALSE]
                 /\ UNCHANGED stream
            ELSE /\ pc' = "stream"
                 /\ stream' = NoStream
                 /\ UNCHANGED result
    /\ UNCHANGED <<fixedVars, convVars, lockVars, bodyVars, disableVars,
                   chanVars, infoVars, now, rlRetry, sensRetry,
                   reissued, respKind, cancelled, clientOut, sends, rotations,
                   onlyQuota, limited>>
    /\ respBody' = IF pc' = "stream" THEN Deferred(respBody)
                 ELSE IF pc' = "done" THEN Unwound(Closed(respBody))
                 ELSE Closed(respBody)

\* The tail every callback shares: hand the chunk kept back to
\* HandleStreamFormat, keep this one back if it is not empty.
PassThrough(st, id, kind) ==
    [st EXCEPT !.lastStreamData = IF kind = "empty" THEN @ ELSE id,
               !.forwarded = IF st.lastStreamData # 0 THEN @ + 1 ELSE @,
               !.n = id]

PassThroughOut(st) ==
    IF st.lastStreamData # 0 THEN <<Forwarded(st.lastStreamData)>> ELSE <<>>

\* The callback of adaptor.go looking for content_filter in every chunk.
CallbackContentFilterEveryChunk(st, id, kind) ==
    IF kind = "filter"
    THEN [next |-> [st EXCEPT !.firstChunkProcessed = TRUE, !.n = id],
          out |-> <<>>, detected |-> TRUE]
    ELSE IF ~st.firstChunkProcessed
    THEN [next |-> [st EXCEPT !.firstChunkProcessed = TRUE,
                              !.headersSet = TRUE,
                              !.lastStreamData =
                                  IF kind = "empty" THEN @ ELSE id,
                              !.n = id],
          out |-> <<>>, detected |-> FALSE]
    ELSE [next |-> PassThrough(st, id, kind), out |-> PassThroughOut(st),
          detected |-> FALSE]

\* A callback that stops the scanner on a first chunk that does not parse.
CallbackContentFilterStopOnJunk(st, id, kind) ==
    IF ~st.firstChunkProcessed
    THEN IF kind \in {"filter", "junk"}
         THEN [next |-> [st EXCEPT !.firstChunkProcessed = TRUE, !.n = id],
               out |-> <<>>, detected |-> TRUE]
         ELSE [next |-> [st EXCEPT !.firstChunkProcessed = TRUE,
                                   !.headersSet = TRUE,
                                   !.lastStreamData =
                                       IF kind = "empty" THEN @ ELSE id,
                                   !.n = id],
               out |-> <<>>, detected |-> FALSE]
    ELSE [next |-> PassThrough(st, id, kind), out |-> PassThroughOut(st),
          detected |-> FALSE]

\* The callback of streamWithContentFilterDetection (adaptor.go): only the
\* first chunk is looked at; "detected" is set when it stops the scanner.
CallbackContentFilter(st, id, kind) ==
    IF ~st.firstChunkProcessed
    THEN IF kind = "filter"
         THEN [next |-> [st EXCEPT !.firstChunkProcessed = TRUE, !.n = id],
               out |-> <<>>, detected |-> TRUE]
         ELSE [next |-> [st EXCEPT !.firstChunkProcessed = TRUE,
                                   !.headersSet = TRUE,
                                   !.lastStreamData =
                                       IF kind = "empty" THEN @ ELSE id,
                                   !.n = id],
               out |-> <<>>, detected |-> FALSE]
    ELSE [next |-> PassThrough(st, id, kind), out |-> PassThroughOut(st),
          detected |-> FALSE]

\* The callback of streamHandler (part_004).
CallbackPlain(st, id, kind) ==
    [next |-> [PassThrough(st, id, kind) EXCEPT !.headersSet = TRUE],
     out |-> PassThroughOut(st), detected |-> FALSE]

\* The chunks of a buffer but the last, as HandleStreamFormat calls.
RECURSIVE AllButLast(_)
AllButLast(items) ==
    IF Len(items) <= 1 THEN <<>>
    ELSE <<Forwarded(Head(items))>> \o AllButLast(Tail(items))

\* The callback of streamWithSensitiveDetection (part_003): chunks are
\* buffered until the accumulated text passes the threshold.
CallbackBuffered(st, id, kind) ==
    IF ~st.detectionPassed
    THEN IF kind = "marker"
         THEN [next |-> [st EXCEPT !.n = id], out |-> <<>>, detected |-> TRUE]
         ELSE LET buf == IF kind = "empty" THEN st.bufferedItems
                         ELSE Append(st.bufferedItems, id)
              IN  IF kind = "long"
                  THEN [next |-> [st EXCEPT
                                     !.detectionPassed = TRUE,
                                     !.headersSet = TRUE,
                                     !.lastStreamData =
                                         IF buf = <<>> THEN @
                                         ELSE buf[Len(buf)],
                                     !.forwarded = @ + Len(AllButLast(buf)),
                                     !.bufferedItems = <<>>,
                                     !.n = id],
                        out |-> AllButLast(buf), detected |-> FALSE]
                  ELSE [next |-> [st EXCEPT !.bufferedItems = buf, !.n = id],
                        out |-> <<>>, detected |-> FALSE]
    ELSE [next |-> PassThrough(st, id, kind), out |-> PassThroughOut(st),
          detected |-> FALSE]

Callback(st, id, kind) ==
    IF variant = "ContentFilter" THEN CallbackContentFilter(st, id, kind)
    ELSE IF variant = "Buffered" THEN CallbackBuffered(st, id, kind)
    ELSE CallbackPlain(st, id, kind)

\* helper.StreamScannerHandler delivers the next chunk of the body to the
\* callback; a detection stops the scanner and handleSensitiveRetry follows.
StreamChunk ==
    /\ pc = "stream"
    /\ respKind = "ok200"
    /\ stream.n < MaxChunks
    /\ \E kind \in ChunkKinds(variant) :
         LET r == Callback(stream, stream.n + 1, kind)
         IN  /\ stream' = [r.next EXCEPT
                              !.unparsedItems =
                                  IF kind = "junk" THEN @ \cup {stream.n + 1}
                                  ELSE @,
                              !.streamItems =
                                  IF kind = "empty" THEN @
                                  ELSE Append(@, stream.n + 1)]
             /\ clientOut' = clientOut \o r.out
             /\ pc' = IF r.detected THEN "sensitive" ELSE "stream"
    /\ UNCHANGED <<fixedVars, convVars, lockVars, bodyVars, respBody, disableVars,
                   chanVars, infoVars, now, rlRetry, sensRetry,
                   reissued, respKind, result, cancelled, sends, rotations,
                   onlyQuota, limited>>

\* After the scanner: part_003 flushes a buffer that never passed the
\* threshold; then the chunk kept back goes out (for the OpenAI format only if
\* openai.HandleLastResponse says so) and HandleFinalResponse ends the stream.
StreamEnd ==
    /\ pc = "stream"
    /\ \E shouldSendLastResp \in BOOLEAN :
         LET flush == variant = "Buffered" /\ ~stream.detectionPassed
                      /\ stream.bufferedItems # <<>>
             buf == stream.bufferedItems
             last == IF flush THEN buf[Len(buf)] ELSE stream.lastStreamData
             mid == IF flush THEN AllButLast(buf) ELSE <<>>
             tail == IF relayFormat = "claude"
                        \/ (relayFormat = "openai" /\ shouldSendLastResp)
                     THEN <<Forwarded(last)>> ELSE <<>>
         IN  /\ clientOut' = clientOut \o mid \o tail
                                \o <<Event("final", last, "upstream")>>
             /\ stream' = [stream EXCEPT
                              !.lastStreamData = last,
                              !.forwarded = @ + Len(mid) + Len(tail)]
    /\ pc' = "done"
    /\ result' = [kind |-> "ok", inner |-> "ok", skipRetry |-> FALSE]
    /\ UNCHANGED <<fixedVars, convVars, lockVars, bodyVars, disableVars,
                   chanVars, infoVars, now, rlRetry, sensRetry,
                   reissued, respKind, cancelled, sends, rotations, onlyQuota, limited>>
    /\ respBody' = IF pc' = "done" THEN Unwound(respBody) ELSE respBody

\* ------------------------------------------------------- sensitive retries
\* The six events handleSensitiveRetry of adaptor.go writes for the Claude
\* format when the retries are used up.
TerminalSequence ==
    << Event("message_start", -1, ""),
       Event("content_block_start", 0, "text"),
       Event("content_block_delta", 0, "explanation"),
       Event("content_block_stop", 0, ""),
       Event("message_delta", -1, "end_turn"),
       Event("message_stop", -1, "") >>

\* switchToNextKey: the slot channel.GetNextEnabledKey hands out (any enabled
\* slot), taken when its key is not the one in use; -1 for no change.
SwitchToNextKeyChoices ==
    {-1} \cup {k \in KeySlots : /\ statusList[k] = ChannelStatusEnabled
                                /\ KeyAt(k) # apiKey}

\* The sensitive handler with one retry too many.
SensitiveRetryLeftOffByOne(v, retryCount) ==
    retryCount <= MaxSensitiveRetries(v)

\* "retryCount < MaxSensitiveRetries": a retry is left.
SensitiveRetryLeft(v, retryCount) == retryCount < MaxSensitiveRetries(v)

SensitiveExhausted ==
    [kind |-> ErrorCodeSensitiveWordsDetected,
     inner |-> ErrorCodeSensitiveWordsDetected, skipRetry |-> FALSE]

\* The request body for the retry is fetched: an error there ends the
\* request, otherwise DoRequest is called again.
RetryOrBodyError(bodyErr) ==
    IF bodyErr
    THEN /\ pc' = "done"
         /\ result' = [kind |-> ErrorCodeReadRequestBodyFailed,
                       inner |-> ErrorCodeReadRequestBodyFailed,
                       skipRetry |-> FALSE]
         /\ UNCHANGED <<reissued, respKind, stream, cachedBody, reqBody>>
    ELSE /\ pc' = "ratelimit"
         /\ reissued' = TRUE
         /\ respKind' = "none"
         /\ stream' = NoStream
         /\ reqBody' = RetryBody
         /\ cachedBody' = RetryBody
         /\ UNCHANGED result

\* A sensitive retry that starts the rate-limit counter afresh.
handleSensitiveRetryResetsRateLimit ==
    /\ pc = "sensitive"
    /\ variant = "ContentFilter"
    /\ IF SensitiveRetryLeft(variant, sensRetry)
       THEN /\ sensRetry' = sensRetry + 1
            /\ rlRetry' = 0
            /\ \E k \in SwitchToNextKeyChoices :
                 IF k = -1 THEN UNCHANGED infoVars
                 ELSE /\ keyIndex' = k
                      /\ apiKey' = KeyAt(k)
            /\ \E bodyErr \in BOOLEAN : RetryOrBodyError(bodyErr)
            /\ UNCHANGED clientOut
       ELSE /\ clientOut' = IF relayFormat = "claude"
                            THEN clientOut \o TerminalSequence
                            ELSE clientOut
            /\ pc' = "done"
            /\ result' = SensitiveExhausted
            /\ UNCHANGED <<sensRetry, infoVars, reissued, respKind, stream,
                           cachedBody, reqBody, rlRetry>>
    /\ UNCHANGED <<fixedVars, convVars, lockVars, sentBody, disableVars,
                   chanVars, now, cancelled,
                   sends, rotations, onlyQuota, limited>>
    /\ respBody' = IF pc' = "done" THEN Unwound(respBody) ELSE respBody

\* handleSensitiveRetry of adaptor.go
handleSensitiveRetryContentFilter ==
    /\ pc = "sensitive"
    /\ variant = "ContentFilter"
    /\ IF SensitiveRetryLeft(variant, sensRetry)
       THEN /\ sensRetry' = sensRetry + 1
            /\ \E k \in SwitchToNextKeyChoices :
                 IF k = -1 THEN UNCHANGED infoVars
                 ELSE /\ keyIndex' = k
                      /\ apiKey' = KeyAt(k)
            /\ \E bodyErr \in BOOLEAN : RetryOrBodyError(bodyErr)
            /\ UNCHANGED clientOut
       ELSE /\ clientOut' = IF relayFormat = "claude"
                            THEN clientOut \o TerminalSequence
                            ELSE clientOut
            /\ pc' = "done"
            /\ result' = SensitiveExhausted
            /\ UNCHANGED <<sensRetry, infoVars, reissued, respKind, stream,
                           cachedBody, reqBody>>
    /\ UNCHANGED <<fixedVars, convVars, lockVars, sentBody, disableVars,
                   chanVars, now, rlRetry, cancelled,
                   sends, rotations, onlyQuota, limited>>
    /\ respBody' = IF pc' = "done" THEN Unwound(respBody) ELSE respBody

\* handleSensitiveRetry of part_003
handleSensitiveRetryBuffered ==
    /\ pc = "sensitive"
    /\ variant = "Buffered"
    /\ IF SensitiveRetryLeft(variant, sensRetry)
       THEN /\ sensRetry' = sensRetry + 1
            /\ \E bodyErr \in BOOLEAN : RetryOrBodyError(bodyErr)
       ELSE /\ pc' = "done"
            /\ result' = SensitiveExhausted
            /\ UNCHANGED <<sensRetry, reissued, respKind, stream,
                           cachedBody, reqBody>>
    /\ UNCHANGED <<fixedVars, convVars, lockVars, sentBody, disableVars,
                   chanVars, infoVars, now, rlRetry,
                   cancelled, clientOut, sends, rotations, onlyQuota, limited>>
    /\ respBody' = IF pc' = "done" THEN Unwound(respBody) ELSE respBody

\* ------------------------------------------------------------- environment
\* The client goes away: the request's context is cancelled.  The context is
\* looked at in DoResponse only, so a cancellation at any earlier point is the
\* one seen there.
Cancel ==
    /\ pc = "response"
    /\ ~cancelled
    /\ cancelled' = TRUE
    /\ UNCHANGED <<fixedVars, convVars, lockVars, bodyVars, respBody, disableVars,
                   chanVars, infoVars, now, rlRetry, sensRetry,
                   reissued, pc, respKind, result, stream, clientOut, sends,
                   rotations, onlyQuota, limited>>

\* Time passes.  The clock is read where a cooldown is compared with it, in
\* ensureKeyNotInCooldown and in switchToNextAvailableKey, so time passing at
\* any other point is the time seen at the next of these.
Tick ==
    /\ \/ pc = "handle429"
       \/ pc = "ratelimit" /\ variant = "QuotaIOA" /\ ~isIOA
    /\ now < MaxTime
    /\ now' = now + 1
    /\ UNCHANGED <<fixedVars, convVars, lockVars, bodyVars, respBody, disableVars,
                   chanVars, infoVars, rlRetry, sensRetry, reissued,
                   pc, respKind, result, cancelled, stream, clientOut, sends,
                   rotations, onlyQuota, limited>>

\* The steps of the request's own goroutine.
RequestStep ==
    \/ DoRequest
    \/ ensureKeyNotInCooldown
    \/ DoApiRequest
    \/ handleRateLimitContentFilter
    \/ handleRateLimitQuotaIOA
    \/ handleRateLimitQuota
    \/ handleUnauthorizedInRequest
    \/ DoResponse
    \/ StreamChunk
    \/ StreamEnd
    \/ handleSensitiveRetryContentFilter
    \/ handleSensitiveRetryBuffered

Next == RequestStep \/ Cancel \/ Tick

Spec == Init /\ [][Next]_vars

\* The request's goroutine keeps running while it has a step to take.
LSpec == Spec /\ WF_vars(RequestStep)

\* The client goes away at any point of the request, not only where the
\* adapter looks at the context.
CancelAny ==
    /\ pc # "done"
    /\ ~cancelled
    /\ cancelled' = TRUE
    /\ UNCHANGED <<fixedVars, convVars, lockVars, bodyVars, respBody, disableVars,
                   chanVars, infoVars, now, rlRetry, sensRetry,
                   reissued, pc, respKind, result, stream, clientOut, sends,
                   rotations, onlyQuota, limited>>

CNext == Next \/ CancelAny

CSpec == Init /\ [][CNext]_vars

\* --------------------------------------------------- requests side by side
\* Several requests of one channel run their key-state operations at the same
\* time: ensureKeyNotInCooldown, setKeyCooldown, disableCurrentKey and
\* switchToNextAvailableKey, each cut at its lock calls and at its accesses to
\* the maps of ch.ChannelInfo.  Each request is followed through one upstream
\* answer.
Requests == 1 .. MaxRequests

\* The variables that describe a request on its own are not used here.
soloVars == <<infoVars, relayFormat, rlRetry, sensRetry, reissued, pc,
              respKind, result, cancelled, stream, clientOut, sends,
              rotations, onlyQuota, limited, respBody, bodyVars>>

At(p, where) == ~crashed /\ req[p].pc = where

\* What no step of these operations touches.
KRest == UNCHANGED <<fixedVars, now, soloVars, convVars>>

\* A lock call that does not wait for the holder.
AcquireNoWait(p) == lock' = p

\* lock.Lock()
Acquire(p) == lock = 0 /\ lock' = p

\* lock.Unlock()
Release(p) == lock' = 0

\* doRequestWithRateLimitRetry: part_004's first revision checks the key's
\* cooldown first when the model is not an -ioa model.
RequestStart(p) ==
    /\ At(p, "start")
    /\ KRest
    /\ req' = [req EXCEPT ![p].pc = IF variant = "QuotaIOA" /\ ~isIOA
                                    THEN "e_lock" ELSE "send"]
    /\ UNCHANGED <<lock, crashed, saved, allocated, chanVars, disableVars>>

\* ensureKeyNotInCooldown: lock.Lock()
EnsureLock(p) ==
    /\ At(p, "e_lock")
    /\ KRest
    /\ Acquire(p)
    /\ req' = [req EXCEPT ![p].pc = "e_ref"]
    /\ UNCHANGED <<crashed, saved, allocated, chanVars, disableVars>>

\* ensureKeyNotInCooldown: cooldownMap := ch.ChannelInfo.MultiKeyCooldownUntil
\* and lock.Unlock(); a nil map returns at once.
EnsureRef(p) ==
    /\ At(p, "e_ref")
    /\ KRest
    /\ Release(p)
    /\ req' = [req EXCEPT ![p].pc = IF allocated.cooldown
                                    THEN "e_read" ELSE "send"]
    /\ UNCHANGED <<crashed, saved, allocated, chanVars, disableVars>>

\* Another request holds the lock and is at its write to the cooldown map.
WriterAtWork(p) ==
    \E q \in Requests \ {p} : lock = q /\ req[q].pc = "c_store"

\* ensureKeyNotInCooldown: cooldownMap[info.ChannelMultiKeyIndex], read with
\* the lock released.  Read while another request writes the map, it gives
\* either answer or the runtime stops the process.
EnsureRead(p) ==
    /\ At(p, "e_read")
    /\ KRest
    /\ \/ /\ WriterAtWork(p)
          /\ crashed' = TRUE
          /\ UNCHANGED req
       \/ /\ \E c \in (IF WriterAtWork(p) THEN BOOLEAN
                       ELSE {cooldownUntil[req[p].key] > now}) :
               req' = [req EXCEPT
                          ![p].inCooldown = c,
                          ![p].after = IF c THEN "send" ELSE @,
                          ![p].pc = IF c THEN "s_lock" ELSE "send"]
          /\ UNCHANGED crashed
    /\ UNCHANGED <<lock, saved, allocated, chanVars, disableVars>>

\* channel.DoApiRequest and the dispatch on its status: 429 to the cooldown
\* and the rotation, 401 to the disablement where the revision handles it.
Answer(p) ==
    /\ At(p, "send")
    /\ KRest
    /\ \E a \in {"ok", "429", "401"} :
         req' = [req EXCEPT
                    ![p].answer = a,
                    ![p].used = req[p].key,
                    ![p].after = "done",
                    ![p].pc =
                        IF a = "429"
                        THEN IF variant = "QuotaIOA" /\ isIOA
                             THEN "s_lock" ELSE "c_lock"
                        ELSE IF a = "401" /\ HasUnauthorizedHandler(variant)
                             THEN "d_lock" ELSE "done"]
    /\ UNCHANGED <<lock, crashed, saved, allocated, chanVars, disableVars>>

\* setKeyCooldown: lock.Lock()
CooldownLock(p) ==
    /\ At(p, "c_lock")
    /\ KRest
    /\ Acquire(p)
    /\ req' = [req EXCEPT ![p].pc = "c_check"]
    /\ UNCHANGED <<crashed, saved, allocated, chanVars, disableVars>>

\* setKeyCooldown: if ch.ChannelInfo.MultiKeyCooldownUntil == nil
CooldownCheck(p) ==
    /\ At(p, "c_check")
    /\ KRest
    /\ req' = [req EXCEPT ![p].sawNil = ~allocated.cooldown,
                          ![p].pc = "c_store"]
    /\ UNCHANGED <<lock, crashed, saved, allocated, chanVars, disableVars>>

\* setKeyCooldown: the map made when it was nil, and the entry written.
CooldownStore(p) ==
    /\ At(p, "c_store")
    /\ KRest
    /\ cooldownUntil' =
           IF req[p].sawNil
           THEN [k \in KeySlots |-> IF k = req[p].key THEN MaxTime + 1 ELSE 0]
           ELSE SetKeyCooldown(cooldownUntil, req[p].key, MaxTime + 1)
    /\ allocated' = [allocated EXCEPT !.cooldown = TRUE]
    /\ req' = [req EXCEPT ![p].pc = IF variant = "ContentFilter"
                                    THEN "c_unlock" ELSE "c_save"]
    /\ UNCHANGED <<lock, crashed, saved, statusList, pollingIndex,
                   disableVars>>

\* setKeyCooldown of part_004: ch.SaveChannelInfo()
CooldownSave(p) ==
    /\ At(p, "c_save")
    /\ KRest
    /\ saved' = KeyState
    /\ req' = [req EXCEPT ![p].pc = "c_unlock"]
    /\ UNCHANGED <<lock, crashed, allocated, chanVars, disableVars>>

\* setKeyCooldown: the deferred lock.Unlock(); the rotation follows.
CooldownUnlock(p) ==
    /\ At(p, "c_unlock")
    /\ KRest
    /\ Release(p)
    /\ req' = [req EXCEPT ![p].pc = "s_lock"]
    /\ UNCHANGED <<crashed, saved, allocated, chanVars, disableVars>>

\* disableCurrentKey: lock.Lock()
DisableLock(p) ==
    /\ At(p, "d_lock")
    /\ KRest
    /\ Acquire(p)
    /\ req' = [req EXCEPT ![p].pc = "d_check"]
    /\ UNCHANGED <<crashed, saved, allocated, chanVars, disableVars>>

\* disableCurrentKey: if ch.ChannelInfo.MultiKeyStatusList == nil, and the
\* same for the reason and the time maps, which are made together with it.
DisableCheck(p) ==
    /\ At(p, "d_check")
    /\ KRest
    /\ req' = [req EXCEPT ![p].sawNil = ~allocated.status,
                          ![p].pc = "d_store"]
    /\ UNCHANGED <<lock, crashed, saved, allocated, chanVars, disableVars>>

\* disableCurrentKey: the maps made when they were nil, and the status, the
\* reason and the time written.
DisableStore(p) ==
    /\ At(p, "d_store")
    /\ KRest
    /\ LET k == req[p].key
       IN  IF req[p].sawNil
           THEN /\ statusList' = [j \in KeySlots |->
                                     IF j = k THEN ChannelStatusAutoDisabled
                                     ELSE ChannelStatusEnabled]
                /\ disabledReason' = [j \in KeySlots |->
                                         IF j = k THEN "401 Unauthorized"
                                         ELSE ""]
                /\ disabledTime' = [j \in KeySlots |->
                                       IF j = k THEN now ELSE 0]
           ELSE /\ statusList' = [statusList EXCEPT
                                     ![k] = ChannelStatusAutoDisabled]
                /\ disabledReason' = [disabledReason EXCEPT
                                         ![k] = "401 Unauthorized"]
                /\ disabledTime' = [disabledTime EXCEPT ![k] = now]
    /\ allocated' = [allocated EXCEPT !.status = TRUE]
    /\ req' = [req EXCEPT ![p].pc = "d_unlock"]
    /\ UNCHANGED <<lock, crashed, saved, cooldownUntil, pollingIndex>>

\* disableCurrentKey: the deferred lock.Unlock()
DisableUnlock(p) ==
    /\ At(p, "d_unlock")
    /\ KRest
    /\ Release(p)
    /\ req' = [req EXCEPT ![p].pc = "done"]
    /\ UNCHANGED <<crashed, saved, allocated, chanVars, disableVars>>

\* switchToNextAvailableKey: lock.Lock()
SwitchLock(p) ==
    /\ At(p, "s_lock")
    /\ KRest
    /\ Acquire(p)
    /\ req' = [req EXCEPT ![p].pc = "s_scan"]
    /\ UNCHANGED <<crashed, saved, allocated, chanVars, disableVars>>

\* switchToNextAvailableKey: the loop over the other slots; a slot found
\* becomes the request's key and moves the polling index.
SwitchScan(p) ==
    /\ At(p, "s_scan")
    /\ KRest
    /\ LET next == SwitchTargetFrom(cooldownUntil, req[p].key)
       IN  IF next = -1
           THEN /\ req' = [req EXCEPT ![p].after = "done",
                                      ![p].pc = "s_unlock"]
                /\ UNCHANGED pollingIndex
           ELSE /\ req' = [req EXCEPT ![p].key = next, ![p].pc = "s_unlock"]
                /\ pollingIndex' = (next + 1) % nKeys
    /\ UNCHANGED <<lock, crashed, saved, allocated, statusList,
                   cooldownUntil, disableVars>>

\* switchToNextAvailableKey: the deferred lock.Unlock(); the caller goes on.
SwitchUnlock(p) ==
    /\ At(p, "s_unlock")
    /\ KRest
    /\ Release(p)
    /\ req' = [req EXCEPT ![p].pc = req[p].after]
    /\ UNCHANGED <<crashed, saved, allocated, chanVars, disableVars>>

\* Requests enter a channel of MaxKeys keys, all enabled, whose maps may not
\* exist yet; request p was given slot p - 1 by the channel layer.
KInit ==
    /\ ConvInit
    /\ NoImport
    /\ variant \in {"ContentFilter", "QuotaIOA", "Quota"}
    /\ nKeys = MaxKeys
    /\ isIOA \in (IF variant = "QuotaIOA" THEN BOOLEAN ELSE {FALSE})
    /\ now = 1
    /\ allocated \in [cooldown : BOOLEAN, status : BOOLEAN]
    /\ statusList = [k \in 0 .. (nKeys - 1) |-> ChannelStatusEnabled]
    /\ disabledReason = [k \in 0 .. (nKeys - 1) |-> ""]
    /\ disabledTime = [k \in 0 .. (nKeys - 1) |-> 0]
    /\ cooldownUntil \in
           {[k \in 0 .. (nKeys - 1) |-> 0]}
           \cup (IF allocated.cooldown
                 THEN {[k \in 0 .. (nKeys - 1) |->
                           IF k = 0 THEN MaxTime + 1 ELSE 0]}
                 ELSE {})
    /\ pollingIndex = 0
    /\ lock = 0
    /\ req = [p \in Requests |->
                 [IdleRequest EXCEPT !.pc = "start",
                                     !.key = (p - 1) % nKeys,
                                     !.used = (p - 1) % nKeys]]
    /\ crashed = FALSE
    /\ saved = KeyState
    /\ keyIndex = 0
    /\ apiKey = KeyAt(0)
    /\ relayFormat = "openai"
    /\ rlRetry = 0
    /\ sensRetry = 0
    /\ reissued = FALSE
    /\ pc = "done"
    /\ respKind = "none"
    /\ result = NoResult
    /\ cancelled = FALSE
    /\ stream = NoStream
    /\ clientOut = <<>>
    /\ sends = 0
    /\ rotations = 0
    /\ onlyQuota = FALSE
    /\ limited = {}
    /\ respBody = NoBody
    /\ cachedBody = NoBytes
    /\ reqBody = NoBytes
    /\ sentBody = NoBytes

KStep(p) ==
    \/ RequestStart(p)
    \/ EnsureLock(p)
    \/ EnsureRef(p)
    \/ EnsureRead(p)
    \/ Answer(p)
    \/ CooldownLock(p)
    \/ CooldownCheck(p)
    \/ CooldownStore(p)
    \/ CooldownSave(p)
    \/ CooldownUnlock(p)
    \/ DisableLock(p)
    \/ DisableCheck(p)
    \/ DisableStore(p)
    \/ DisableUnlock(p)
    \/ SwitchLock(p)
    \/ SwitchScan(p)
    \/ SwitchUnlock(p)

KNext == \E p \in Requests : KStep(p)

KSpec == KInit /\ [][KNext]_vars

\* ----------------------------------------------------- streaming transcoder
\* An event of the Claude stream: kind is the block's type on a start, the
\* delta's type on a delta, the stop reason on message_delta; slot is the
\* upstream tool-call slot whose arguments an input_json_delta carries.
ClaudeEvent(type, index, kind, slot) ==
    [type |-> type, index |-> index, kind |-> kind, slot |-> slot]

\* A finish-reason mapping that hands every reason through unchanged.
StopReasonMapUnchanged(reason) == reason

\* stopReasonMap: the finish-reason mapping of the response conversion.
StopReasonMap(reason) ==
    IF reason = "stop" THEN "end_turn"
    ELSE IF reason = "stop_sequence" THEN "stop_sequence"
    ELSE IF reason \in {"length", "max_tokens"} THEN "max_tokens"
    ELSE IF reason = "tool_calls" THEN "tool_use"
    ELSE reason

\* The finish reasons an upstream gives besides "stop"; "content_filter" is
\* one the mapping does not know.
OtherFinishReasons == {"tool_calls", "max_tokens", "length", "content_filter"}

\* An upstream delta: no choice at all, or one choice with at most one kind of
\* content fragment, possibly a thinking signature, possibly a finish reason;
\* a finish reason other than "stop" comes on a delta of its own.
Deltas ==
    {[choice |-> FALSE, content |-> "none", slot |-> -1, signature |-> FALSE,
      finish |-> ""]}
    \cup
    {[choice |-> TRUE, content |-> c, slot |-> -1, signature |-> g,
      finish |-> f] :
        c \in {"none", "text", "thinking"}, g \in BOOLEAN, f \in {"", "stop"}}
    \cup
    {[choice |-> TRUE, content |-> "tool", slot |-> t, signature |-> g,
      finish |-> f] :
        t \in ToolSlots, g \in BOOLEAN, f \in {"", "stop"}}
    \cup
    {[choice |-> TRUE, content |-> "none", slot |-> -1, signature |-> FALSE,
      finish |-> f] : f \in OtherFinishReasons}

\* A step of the transcoder: the state it leaves and the events it emits.
Emit(s, out) == [s |-> s, out |-> out]

BlockOpen(s) == s.currentBlockIndex # -1

\* A closure that stops, after a tool call, the block of the lowest mapped
\* slot instead of the last active one.
CloseTargetFirstSlot(s) ==
    IF s.lastBlockType = "tool"
    THEN LET mapped == {t \in ToolSlots : s.toolCallIndexToBlockIndex[t] # -1}
         IN  s.toolCallIndexToBlockIndex[
                 CHOOSE t \in mapped : \A u \in mapped : t <= u]
    ELSE s.currentBlockIndex

\* The index a closure stops: the last active tool slot's block after a tool
\* call, the current block otherwise.
CloseTarget(s) ==
    IF s.lastBlockType = "tool"
    THEN s.toolCallIndexToBlockIndex[s.lastToolCallIndex]
    ELSE s.currentBlockIndex

\* A closure that writes the buffered signature after the block's stop.
CloseBlockStopFirst(s) ==
    IF ~BlockOpen(s) THEN Emit(s, <<>>)
    ELSE LET flush == s.lastBlockType = "thinking" /\ s.thinkingSignature # ""
         IN  Emit([s EXCEPT !.currentBlockIndex = -1,
                            !.thinkingSignature = IF flush THEN "" ELSE @],
                  <<ClaudeEvent("content_block_stop", CloseTarget(s),
                                "", -1)>>
                  \o (IF flush
                      THEN <<ClaudeEvent("content_block_delta", CloseTarget(s),
                                         "signature_delta", -1)>>
                      ELSE <<>>))

\* Close what is open; a thinking block's buffered signature goes out right
\* before its stop.
CloseBlock(s) ==
    IF ~BlockOpen(s) THEN Emit(s, <<>>)
    ELSE LET flush == s.lastBlockType = "thinking" /\ s.thinkingSignature # ""
         IN  Emit([s EXCEPT !.currentBlockIndex = -1,
                            !.thinkingSignature = IF flush THEN "" ELSE @],
                  (IF flush
                   THEN <<ClaudeEvent("content_block_delta", CloseTarget(s),
                                      "signature_delta", -1)>>
                   ELSE <<>>)
                  \o <<ClaudeEvent("content_block_stop", CloseTarget(s),
                                   "", -1)>>)

\* An allocation that increments for the first block as for every other.
NextBlockIndexAlwaysIncrement(s) == s.blockIndexCounter + 1

\* The index of the next block: 0 for the first of the response, one more
\* than the last assigned for every other.
NextBlockIndex(s) ==
    IF s.hasBlockStarted THEN s.blockIndexCounter + 1 ELSE 0

\* Open a block of the given type.
OpenBlock(s, type) ==
    LET idx == NextBlockIndex(s)
    IN  Emit([s EXCEPT !.currentBlockIndex = idx,
                       !.blockIndexCounter = idx,
                       !.hasBlockStarted = TRUE,
                       !.lastBlockType =
                           IF type = "tool_use" THEN "tool" ELSE type],
             <<ClaudeEvent("content_block_start", idx, type, -1)>>)

\* A tool-call handler that writes a mapped slot's arguments to the current
\* block.
OnToolCallCurrentBlock(s, slot) ==
    IF s.toolCallIndexToBlockIndex[slot] # -1
    THEN Emit(s,
              <<ClaudeEvent("content_block_delta", s.currentBlockIndex,
                            "input_json_delta", slot)>>)
    ELSE LET closed == IF BlockOpen(s) /\ s.lastBlockType # "tool"
                       THEN CloseBlock(s) ELSE Emit(s, <<>>)
             opened == OpenBlock(closed.s, "tool_use")
         IN  Emit([opened.s EXCEPT
                      !.toolCallIndexToBlockIndex[slot] =
                          opened.s.currentBlockIndex,
                      !.lastToolCallIndex = slot],
                  closed.out \o opened.out)

\* A tool-call fragment: for a slot that has its block, only the arguments
\* delta on that block; for a new slot, a new tool_use block, the slot
\* remembered as the last tool slot.
OnToolCall(s, slot) ==
    IF s.toolCallIndexToBlockIndex[slot] # -1
    THEN Emit(s,
              <<ClaudeEvent("content_block_delta",
                            s.toolCallIndexToBlockIndex[slot],
                            "input_json_delta", slot)>>)
    ELSE LET closed == IF BlockOpen(s) /\ s.lastBlockType # "tool"
                       THEN CloseBlock(s) ELSE Emit(s, <<>>)
             opened == OpenBlock(closed.s, "tool_use")
         IN  Emit([opened.s EXCEPT
                      !.toolCallIndexToBlockIndex[slot] =
                          opened.s.currentBlockIndex,
                      !.lastToolCallIndex = slot],
                  closed.out \o opened.out)

\* A fragment handler that opens a new block for every fragment.
OnFragmentReopen(s, type) ==
    LET closed == CloseBlock(s)
        opened == OpenBlock(closed.s, type)
    IN  Emit(opened.s,
             closed.out \o opened.out
             \o <<ClaudeEvent("content_block_delta",
                              opened.s.currentBlockIndex,
                              IF type = "text" THEN "text_delta"
                              ELSE "thinking_delta", -1)>>)

\* A reasoning fragment (type "thinking") or a plain-text fragment ("text").
OnFragment(s, type) ==
    LET reuse == BlockOpen(s) /\ s.lastBlockType = type
        closed == IF reuse THEN Emit(s, <<>>) ELSE CloseBlock(s)
        opened == IF reuse THEN Emit(s, <<>>) ELSE OpenBlock(closed.s, type)
    IN  Emit(opened.s,
             closed.out \o opened.out
             \o <<ClaudeEvent("content_block_delta",
                              opened.s.currentBlockIndex,
                              IF type = "text" THEN "text_delta"
                              ELSE "thinking_delta", -1)>>)

\* The content of a delta's choice.
OnContent(s, d) ==
    IF d.content = "tool" THEN OnToolCall(s, d.slot)
    ELSE IF d.content \in {"text", "thinking"} THEN OnFragment(s, d.content)
    ELSE Emit(s, <<>>)

\* The terminal sequence.
Terminal(s) ==
    LET closed == CloseBlock(s)
    IN  Emit(closed.s,
             closed.out
             \o <<ClaudeEvent("message_delta", -1,
                              StopReasonMap(closed.s.finishReason), -1),
                  ClaudeEvent("message_stop", -1, "", -1)>>)

\* A conversion that ends the stream before it looks at the content of the
\* delta that carries the finish reason.
TranscodeFinishFirst(s, d, first) ==
    LET start == IF first
                 THEN <<ClaudeEvent("message_start", -1, "", -1)>> ELSE <<>>
        buffered == [s EXCEPT
                        !.finishReason = IF d.finish # "" THEN d.finish ELSE @]
        finish == IF (d.choice /\ d.finish # "") \/ (~d.choice /\ s.done)
                  THEN Terminal(buffered) ELSE Emit(buffered, <<>>)
    IN  IF finish.out # <<>>
        THEN Emit(finish.s, start \o finish.out)
        ELSE LET signature == [buffered EXCEPT
                                  !.thinkingSignature =
                                      IF d.signature THEN "signature" ELSE @]
                 content == IF d.choice THEN OnContent(signature, d)
                            ELSE Emit(signature, <<>>)
             IN  Emit(content.s, start \o content.out)

\* A conversion that opens the message only on a first delta with a choice.
TranscodeStartOnChoice(s, d, first) ==
    LET start == IF first /\ d.choice
                 THEN <<ClaudeEvent("message_start", -1, "", -1)>> ELSE <<>>
        buffered == [s EXCEPT
                        !.thinkingSignature =
                            IF d.signature THEN "signature" ELSE @,
                        !.finishReason = IF d.finish # "" THEN d.finish ELSE @]
        content == IF d.choice THEN OnContent(buffered, d)
                   ELSE Emit(buffered, <<>>)
        finish == IF (d.choice /\ d.finish # "") \/ (~d.choice /\ s.done)
                  THEN Terminal(content.s) ELSE Emit(content.s, <<>>)
    IN  Emit(finish.s, start \o content.out \o finish.out)

\* One delta through the transcoder: message_start on the first, the
\* signature buffered, the content, then the termination.
Transcode(s, d, first) ==
    LET start == IF first
                 THEN <<ClaudeEvent("message_start", -1, "", -1)>> ELSE <<>>
        buffered == [s EXCEPT
                        !.thinkingSignature =
                            IF d.signature THEN "signature" ELSE @,
                        !.finishReason = IF d.finish # "" THEN d.finish ELSE @]
        content == IF d.choice THEN OnContent(buffered, d)
                   ELSE Emit(buffered, <<>>)
        finish == IF (d.choice /\ d.finish # "") \/ (~d.choice /\ s.done)
                  THEN Terminal(content.s) ELSE Emit(content.s, <<>>)
    IN  Emit(finish.s, start \o content.out \o finish.out)

\* The thinking blocks a signature of this delta belongs to: the one open
\* when the delta arrives.
SignedBy(s, d) ==
    IF d.signature /\ BlockOpen(s) /\ s.lastBlockType = "thinking"
    THEN {s.currentBlockIndex} ELSE {}

\* The next upstream delta is converted.
Feed ==
    /\ Len(fed) < MaxDeltas
    /\ \E d \in Deltas :
         LET r == Transcode(conv, d, fed = <<>>)
         IN  /\ conv' = r.s
             /\ events' = events \o r.out
             /\ fed' = Append(fed, d)
             /\ signed' = signed \cup SignedBy(conv, d)
    /\ UNCHANGED <<adaptorVars, lockVars>>

\* The upstream stream has ended: the stream handler records it.
StreamDone ==
    /\ ~conv.done
    /\ conv' = [conv EXCEPT !.done = TRUE]
    /\ UNCHANGED <<events, fed, signed, adaptorVars, lockVars>>

\* The transcoder is looked at on its own, the request around it settled.
TInit ==
    /\ ConvInit
    /\ NoImport
    /\ variant = "ContentFilter"
    /\ nKeys = 1
    /\ statusList = [k \in {0} |-> ChannelStatusEnabled]
    /\ cooldownUntil = [k \in {0} |-> 0]
    /\ pollingIndex = 0
    /\ now = 1
    /\ keyIndex = 0
    /\ apiKey = KeyAt(0)
    /\ isIOA = FALSE
    /\ relayFormat = "claude"
    /\ rlRetry = 0
    /\ sensRetry = 0
    /\ reissued = FALSE
    /\ pc = "stream"
    /\ respKind = "ok200"
    /\ result = NoResult
    /\ cancelled = FALSE
    /\ stream = NoStream
    /\ clientOut = <<>>
    /\ sends = 1
    /\ rotations = 0
    /\ onlyQuota = FALSE
    /\ limited = {}
    /\ respBody = NoBody
    /\ cachedBody = NoBytes
    /\ reqBody = NoBytes
    /\ sentBody = NoBytes
    /\ disabledReason = [k \in {0} |-> ""]
    /\ disabledTime = [k \in {0} |-> 0]
    /\ NoConcurrency

TNext == Feed \/ StreamDone

TSpec == TInit /\ [][TNext]_vars

\* ------------------------------------------------------------ properties
AllKeysEnabled == \A k \in KeySlots : statusList[k] = ChannelStatusEnabled

\* C1: on a channel with two keys that both answer 429 with the
\* quota-exhausted code, the request ends with the "all keys exhausted" kind
\* (channel:all_keys_rate_limited), never with another kind.
C1_AllKeysExhaustedKind ==
    (/\ pc = "done"
     /\ HasRateLimitHandler(variant)
     /\ nKeys = 2
     /\ AllKeysEnabled
     /\ onlyQuota
     /\ rotations >= 1)
        => result.kind = ErrorCodeChannelAllKeysRateLimited

\* What the revision returns when the retries are used up.
IsCapError(r) ==
    \/ r.inner = ErrorCodeChannelAllKeysRateLimited
    \/ (variant = "QuotaIOA" /\ r.inner = ErrorCodeRateLimited)

\* Larger than the number of steps of one attempt.
AttemptSteps == MaxChunks + 8

\* How far the request is from its end: the retries left, then the place in
\* the attempt.
Rank ==
    ((MaxRateLimitRetries(variant) - rlRetry)
        + (MaxSensitiveRetries(variant) - sensRetry)) * AttemptSteps
    + (CASE pc = "start" -> MaxChunks + 7
         [] pc = "ratelimit" -> MaxChunks + 6
         [] pc = "send" -> MaxChunks + 5
         [] pc \in {"handle429", "handle401"} -> MaxChunks + 4
         [] pc = "response" -> MaxChunks + 3
         [] pc = "stream" -> 2 + (MaxChunks - stream.n)
         [] pc = "sensitive" -> 1
         [] OTHER -> 0)

Usable(k) ==
    /\ k # keyIndex
    /\ statusList[k] = ChannelStatusEnabled
    /\ ~(cooldownUntil'[k] > now)

\* C5: a rotation after a 429 selects a slot that differs from the current
\* one, is not disabled and is not in cooldown when selected; when there is
\* no such slot (a single key included) the rotation fails, no upstream
\* request follows and the request ends with the channel-level "all keys
\* exhausted" error.
C5_RotationSelectsUsableKey ==
    [][/\ (pc = "handle429" /\ rotations' = rotations + 1)
            => Usable(keyIndex')
       /\ (/\ pc = "handle429"
           /\ pc' # pc
           /\ Retryable429(variant, respKind)
           /\ ~AtRetryCap(variant, rlRetry)
           /\ ~(\E k \in KeySlots : Usable(k)))
            => /\ pc' = "done"
               /\ sends' = sends
               /\ result'.inner = ErrorCodeChannelAllKeysRateLimited]_vars

\* C6: after MaxSensitiveRetries + 1 consecutive sensitive detections a
\* client of the Claude format has received exactly the terminal sequence
\* message_start, content_block_start(0, text), content_block_delta with the
\* explanation, content_block_stop(0), message_delta with a neutral stop
\* reason, message_stop.
C6_TerminalSequenceOnExhaustion ==
    (/\ pc = "done"
     /\ result.kind = ErrorCodeSensitiveWordsDetected
     /\ relayFormat = "claude")
        => clientOut = TerminalSequence

\* C7: the sensitive retry counter only grows, never exceeds
\* MaxSensitiveRetries, and a detection with the counter at the maximum ends
\* the request without another upstream request.
C7_SensitiveRetryBounded ==
    [][/\ sensRetry' >= sensRetry
       /\ sensRetry' <= MaxSensitiveRetries(variant)
       /\ (/\ pc = "sensitive"
           /\ sensRetry = MaxSensitiveRetries(variant)
           /\ pc' # pc)
            => /\ pc' = "done"
               /\ sends' = sends
               /\ sensRetry' = sensRetry
               /\ result'.kind = ErrorCodeSensitiveWordsDetected]_vars

\* The detection after the last retry: MaxSensitiveRetries + 1 requests went
\* out and each answer was found sensitive.
C7_Witness ==
    /\ pc = "done"
    /\ result.kind = ErrorCodeSensitiveWordsDetected
    /\ sensRetry = MaxSensitiveRetries(variant)
    /\ rotations = 0
    /\ sends = MaxSensitiveRetries(variant) + 1

\* C8: when a sensitive detection is about to trigger a retry, nothing of
\* the attempt has reached the client: no SSE headers, no chunk.
C8_NothingWrittenBeforeRetry ==
    pc = "sensitive"
        => /\ ~stream.headersSet
           /\ stream.forwarded = 0
           /\ clientOut = <<>>

\* A detection in a later chunk, with an earlier chunk of the attempt held
\* back, and a retry still to come.
C8_Witness ==
    /\ pc = "sensitive"
    /\ stream.n = 2
    /\ Len(stream.bufferedItems) = 1
    /\ SensitiveRetryLeft(variant, sensRetry)

\* ---------------------------------------------- properties, transcoder
Positions == 1 .. Len(events)
Starts == {i \in Positions : events[i].type = "content_block_start"}
Stops == {i \in Positions : events[i].type = "content_block_stop"}
SignatureDeltas ==
    {i \in Positions : /\ events[i].type = "content_block_delta"
                       /\ events[i].kind = "signature_delta"}
InputJsonDeltas ==
    {i \in Positions : /\ events[i].type = "content_block_delta"
                       /\ events[i].kind = "input_json_delta"}

\* The blocks open just before the event at position i.
OpenAt(i) ==
    {events[j].index : j \in {j \in Starts : j < i}}
        \ {events[j].index : j \in {j \in Stops : j < i}}

\* The type of the block opened at position j's index, looked up from i.
TypeOfBlock(b) ==
    LET j == CHOOSE j \in Starts : events[j].index = b
    IN  events[j].kind

StreamEnded ==
    events # <<>> /\ events[Len(events)].type = "message_stop"

\* C3: whatever deltas are fed, every content_block_stop has the index of an
\* earlier content_block_start, no index is stopped twice, and when the
\* stream has ended there are as many stops as starts.
C3_BlockClosing ==
    /\ \A i \in Stops :
         \E j \in Starts : j < i /\ events[j].index = events[i].index
    /\ \A i, j \in Stops : events[i].index = events[j].index => i = j
    /\ StreamEnded => Cardinality(Starts) = Cardinality(Stops)

\* C4: at most one content block is open at any point of the stream; every
\* delta names a block that is started and not stopped; no block opens while
\* a block of another type is open; none is open at message_delta or
\* message_stop.
C4_OneOpenBlock ==
    /\ \A i \in 1 .. (Len(events) + 1) : Cardinality(OpenAt(i)) <= 1
    /\ \A i \in Positions :
         /\ events[i].type = "content_block_delta"
                => events[i].index \in OpenAt(i)
         /\ events[i].type = "content_block_start"
                => \A b \in OpenAt(i) : TypeOfBlock(b) = events[i].kind
         /\ events[i].type \in {"message_delta", "message_stop"}
                => OpenAt(i) = {}

\* C9: a signature that arrives while a thinking block is open, on whichever
\* delta, is not emitted until that block is closed and is then emitted
\* once, as the signature_delta right before the block's content_block_stop;
\* no signature_delta stands anywhere else.
C9_SignatureFlushedBeforeStop ==
    /\ \A i \in SignatureDeltas :
         /\ i < Len(events)
         /\ events[i + 1].type = "content_block_stop"
         /\ events[i + 1].index = events[i].index
         /\ TypeOfBlock(events[i].index) = "thinking"
    /\ \A b \in signed :
         LET emitted == {i \in SignatureDeltas : events[i].index = b}
         IN  IF \E i \in Stops : events[i].index = b
             THEN Cardinality(emitted) = 1
             ELSE emitted = {} /\ conv.thinkingSignature # ""

\* The signature comes on the delta that carries the finish reason, after
\* the thinking block was opened by an earlier delta, and has been emitted.
C9_Witness ==
    /\ Len(fed) >= 2
    /\ fed[1].content = "thinking"
    /\ ~fed[1].signature
    /\ fed[Len(fed)].signature
    /\ fed[Len(fed)].finish = "stop"
    /\ \A n \in 2 .. (Len(fed) - 1) : ~fed[n].signature
    /\ signed # {}
    /\ SignatureDeltas # {}

\* The slots of the tool-call fragments fed so far.
FedSlots == {fed[n].slot : n \in {n \in 1 .. Len(fed) : fed[n].content = "tool"}}

ToolStarts == {i \in Starts : events[i].kind = "tool_use"}

\* Fragments for slot 0, slot 1 and slot 0 again, and nothing else.
Interleaved ==
    /\ Len(fed) = 3
    /\ \A n \in 1 .. 3 : /\ fed[n].content = "tool"
                         /\ ~fed[n].signature
                         /\ fed[n].finish = ""
    /\ fed[1].slot = 0
    /\ fed[2].slot = 1
    /\ fed[3].slot = 0

\* C10: every slot that sent a fragment has exactly one tool_use block, a
\* fragment for a mapped slot opens none, every input_json_delta carries the
\* index of the block opened for its own slot, and fragments for slots 0, 1
\* and 0 again give exactly two content_block_start events.
C10_ToolSlotIndependence ==
    /\ Cardinality(ToolStarts) = Cardinality(FedSlots)
    /\ \A t \in FedSlots :
         \E i \in ToolStarts :
            events[i].index = conv.toolCallIndexToBlockIndex[t]
    /\ \A t, u \in FedSlots :
         conv.toolCallIndexToBlockIndex[t] = conv.toolCallIndexToBlockIndex[u]
            => t = u
    /\ \A i \in InputJsonDeltas :
         /\ events[i].index = conv.toolCallIndexToBlockIndex[events[i].slot]
         /\ \E j \in ToolStarts : j < i /\ events[j].index = events[i].index
    /\ Interleaved => Cardinality(Starts) = 2

\* Slot 0, slot 1, slot 0 again: two blocks, and the last fragment's
\* arguments written to the first of them while the second is the current.
C10_Witness ==
    /\ Interleaved
    /\ Cardinality(Starts) = 2
    /\ conv.currentBlockIndex = 1
    /\ events[Len(events)] =
           ClaudeEvent("content_block_delta", 0, "input_json_delta", 0)

\* The stream holds one response: nothing stands after a message_stop.
OneResponse ==
    \A i \in Positions : events[i].type = "message_stop" => i = Len(events)

\* C11: within a response the indices of the content_block_start events grow
\* strictly, the first of them is 0, so no index is started twice, and no
\* index is stopped more than once.
C11_BlockIndicesIncrease ==
    OneResponse =>
    /\ \A i, j \in Starts : i < j => events[i].index < events[j].index
    /\ \A i \in Starts :
         (\A j \in Starts : i <= j) => events[i].index = 0
    /\ \A b \in {events[i].index : i \in Starts} :
         /\ Cardinality({i \in Starts : events[i].index = b}) = 1
         /\ Cardinality({i \in Stops : events[i].index = b}) <= 1

\* Three blocks of a response, opened as 0, 1 and 2, the first two stopped.
C11_Witness ==
    /\ OneResponse
    /\ {events[i].index : i \in Starts} = {0, 1, 2}
    /\ {events[i].index : i \in Stops} = {0, 1}

\* C12: whatever the first delta carries, the first event of the response is
\* message_start, it stands nowhere else, and so no content_block event and
\* no message_delta comes before it.
C12_MessageStartFirst ==
    /\ fed # <<>> => events # <<>>
    /\ \A i \in Positions : (events[i].type = "message_start") <=> (i = 1)

\* The first delta has no choice, the next ones carry content and the end;
\* message_start went out with the first.
C12_Witness ==
    /\ Len(fed) >= 2
    /\ ~fed[1].choice
    /\ events[1].type = "message_start"
    /\ StreamEnded
    /\ Starts # {}

\* The last delta converted carries a finish reason and no response was
\* ended before it.
FinishFed ==
    /\ fed # <<>>
    /\ fed[Len(fed)].choice
    /\ fed[Len(fed)].finish # ""
    /\ \A n \in 1 .. (Len(fed) - 1) : ~fed[n].choice \/ fed[n].finish = ""
    /\ Cardinality({i \in Positions : events[i].type = "message_stop"}) <= 1

\* C13: once a delta with a finish reason is converted, the stream ends with
\* message_delta carrying the mapped stop reason and then message_stop as the
\* very last event; the content of that delta was processed before (its
\* fragment's delta and its signature are in the stream ahead of the
\* termination), and the block open after it is stopped right before
\* message_delta.
C13_FinishAfterContent ==
    FinishFed =>
        LET n == Len(events)
            d == fed[Len(fed)]
        IN  /\ n >= 3
            /\ events[n].type = "message_stop"
            /\ events[n - 1].type = "message_delta"
            /\ events[n - 1].kind = StopReasonMap(d.finish)
            /\ conv.currentBlockIndex = -1
            /\ conv.thinkingSignature = "" \/ signed = {}
                    \/ \A b \in signed : \E i \in SignatureDeltas :
                                              events[i].index = b
            /\ d.content \in {"text", "thinking"}
                    => /\ n >= 5
                       /\ events[n - 2].type = "content_block_stop"
                       /\ \E i \in Positions :
                            /\ i < n - 2
                            /\ events[i].type = "content_block_delta"
                            /\ events[i].kind = IF d.content = "text"
                                                THEN "text_delta"
                                                ELSE "thinking_delta"
                            /\ events[i].index = events[n - 2].index
                            /\ \A j \in (i + 1) .. (n - 3) :
                                 events[j].kind = "signature_delta"
            /\ d.content = "tool"
                    => /\ events[n - 2].type = "content_block_stop"
                       /\ \E i \in 1 .. (n - 3) :
                            /\ events[i].slot = d.slot
                                    \/ (/\ events[i].type = "content_block_start"
                                        /\ events[i].index =
                                             conv.toolCallIndexToBlockIndex[d.slot])

\* A thinking fragment, its signature and the finish reason on one delta that
\* opens the block: fragment, signature, stop, message_delta, message_stop.
C13_Witness ==
    /\ FinishFed
    /\ fed[Len(fed)].content = "thinking"
    /\ fed[Len(fed)].signature
    /\ Len(events) >= 5
    /\ events[Len(events) - 3].kind = "signature_delta"
    /\ events[Len(events) - 4].kind = "thinking_delta"

\* ------------------------------------------------- properties, 401 handling
\* The key slot of the attempt is recorded as disabled by a 401 at this time.
DisabledNow(k) ==
    /\ statusList'[k] = ChannelStatusAutoDisabled
    /\ disabledReason'[k] = "401 Unauthorized"
    /\ disabledTime'[k] = now

\* The 401 handler ends the request: no rotation, no other upstream request.
EndsWithoutRetry ==
    /\ pc' = "done"
    /\ sends' = sends
    /\ rotations' = rotations
    /\ rlRetry' = rlRetry
    /\ keyIndex' = keyIndex

MapAccess == {"e_read", "c_store", "d_store", "s_scan"}

\* C15: a request that is about to read or write an entry of the cooldown or
\* status maps holds the channel's polling lock, and none reads an entry with
\* the lock released while another is at its write.
C15_MapAccessUnderLock ==
    /\ \A p \in Requests : req[p].pc \in MapAccess => lock = p
    /\ \A p \in Requests : ~(req[p].pc = "e_read" /\ WriterAtWork(p))

AllDone == ~crashed /\ \A p \in Requests : req[p].pc = "done"

DistinctSlots ==
    \A p, q \in Requests : p # q => req[p].used # req[q].used

\* The update request p made is in the channel's key state.
Recorded(p) ==
    /\ (req[p].answer = "429" /\ ~(variant = "QuotaIOA" /\ isIOA))
            => cooldownUntil[req[p].used] = MaxTime + 1
    /\ (req[p].answer = "401" /\ HasUnauthorizedHandler(variant))
            => /\ statusList[req[p].used] = ChannelStatusAutoDisabled
               /\ disabledReason[req[p].used] = "401 Unauthorized"
               /\ disabledTime[req[p].used] = now

\* C16: when requests that ran side by side and recorded cooldowns or
\* disablements for different key slots have all finished, every one of
\* their updates is in the channel's key state, whatever the interleaving.
C16_NoLostUpdate ==
    (AllDone /\ DistinctSlots) => \A p \in Requests : Recorded(p)

\* Two requests have finished, one with a cooldown for slot 0 and one with a
\* disablement of slot 1, and both records are there.
C16_Witness ==
    /\ AllDone
    /\ req[1].answer = "429" /\ req[1].used = 0
    /\ req[2].answer = "401" /\ req[2].used = 1
    /\ cooldownUntil[0] = MaxTime + 1
    /\ statusList[1] = ChannelStatusAutoDisabled

\* C20: whenever no request is inside a key-state operation, the key state
\* in the store is the key state in memory: every cooldown set and every
\* disablement has been saved.
C20_KeyStatePersisted ==
    (lock = 0 /\ ~crashed) => saved = KeyState

\* ------------------------------------------------ properties, response bodies
\* C17: no Close is ever made on an upstream body that was closed already,
\* and when the call has returned no body the adapter held is still open:
\* every body was closed exactly once.
C17_BodyClosedOnce ==
    /\ respBody.over = 0
    /\ pc = "done" => respBody.open = 0

\* C18: once the request's cancellation has fired, no further upstream
\* request follows one already sent, no key rotation is made and no
\* rate-limit or sensitive-content retry is counted; and DoResponse, entered
\* after it, closes the body and returns the neutral result.
C18_CancellationStopsRetries ==
    [][cancelled =>
          /\ sends >= 1 => sends' = sends
          /\ rotations' = rotations
          /\ sensRetry' = sensRetry
          /\ rlRetry' = rlRetry
          /\ pc = "response" =>
                 (pc' = "done" /\ result' = NoResult /\ respBody'.open = 0)]_vars

\* C19: a request that is reading the body of a 429 or 401 answer always
\* gets on: the read ends or is given up and the handler goes on.
C19_ErrorBodyReadReturns ==
    (pc \in {"handle429", "handle401"})
        ~> (pc \notin {"handle429", "handle401"})

\* ------------------------------------------------ properties, cooldown window
\* Slot k has a cooldown deadline that has not passed: now <= cooldown-until.
WithinCooldown(k) == cooldownUntil'[k] # 0 /\ now <= cooldownUntil'[k]

\* C21: a slot is in cooldown while now <= cooldown-until, the deadline
\* itself included: no rotation selects such a slot, and the check before the
\* send does not let the request go out on one.
C21_CooldownClearedAfterDeadline ==
    [][/\ (pc \in {"handle429", "ratelimit"} /\ keyIndex' # keyIndex)
            => ~WithinCooldown(keyIndex')
       /\ (pc = "ratelimit" /\ pc' = "send" /\ variant = "QuotaIOA" /\ ~isIOA)
            => ~WithinCooldown(keyIndex')]_vars

\* ------------------------------------------- properties, exhaustion's error
\* The 429 handler ends the request on a 429 it rotates keys on: the retries
\* are used up or no other key can be selected.
ExhaustedOn429 ==
    /\ pc = "handle429"
    /\ pc' = "done"
    /\ Retryable429(variant, respKind)

\* C22: whenever the key rotation on a 429 is exhausted, on the first call or
\* inside a request that a sensitive-content retry re-issued, the error the
\* caller gets has the channel-exhausted kind.
C22_ExhaustionKind ==
    [][ExhaustedOn429
          => result'.kind = ErrorCodeChannelAllKeysRateLimited]_vars

\* ---------------------------------------------- properties, the request body
\* C23: every upstream request after the first, whether re-issued after a
\* sensitive-content detection or after a key rotation, carries the body of
\* the first attempt, the converted upstream-format body.
C23_RetryBodyIdentical ==
    [][(sends >= 1 /\ sends' = sends + 1)
          => (sentBody' = sentBody /\ sentBody' = ConvertedBody)]_vars

\* ------------------------------------------------ properties, client writes
\* The chunks written to the client so far, in the order of writing.
WrittenChunks == SelectSeq(clientOut, LAMBDA e : e.type = "chunk")

\* C24: while the stream handler waits for the next upstream chunk, what was
\* derived from the chunks consumed so far has been written to the client,
\* in upstream order: the latest chunk that carried data is among the writes,
\* and no write comes before the write of an earlier chunk.
C24_WrittenBeforeNextChunk ==
    (pc = "stream" /\ respKind = "ok200")
        => /\ stream.lastStreamData # 0
                => \E i \in 1 .. Len(WrittenChunks) :
                       WrittenChunks[i].index = stream.lastStreamData
           /\ \A i, j \in 1 .. Len(WrittenChunks) :
                  i < j => WrittenChunks[i].index <= WrittenChunks[j].index

\* ---------------------------------------- properties, the simple text stream
\* A delta with a text fragment, one with no choice, and one whose choice
\* has no content and the finish reason "stop".
TextDelta ==
    [choice |-> TRUE, content |-> "text", slot |-> -1, signature |-> FALSE,
     finish |-> ""]

NoChoiceDelta ==
    [choice |-> FALSE, content |-> "none", slot |-> -1, signature |-> FALSE,
     finish |-> ""]

StopDelta ==
    [choice |-> TRUE, content |-> "none", slot |-> -1, signature |-> FALSE,
     finish |-> "stop"]

\* message_start, content_block_start(0, text), two text deltas on block 0,
\* content_block_stop(0), message_delta(end_turn), message_stop.
SimpleTextEvents ==
    << ClaudeEvent("message_start", -1, "", -1),
       ClaudeEvent("content_block_start", 0, "text", -1),
       ClaudeEvent("content_block_delta", 0, "text_delta", -1),
       ClaudeEvent("content_block_delta", 0, "text_delta", -1),
       ClaudeEvent("content_block_stop", 0, "", -1),
       ClaudeEvent("message_delta", -1, "end_turn", -1),
       ClaudeEvent("message_stop", -1, "", -1) >>

NewSlotPositions(ds) ==
    {n \in 1 .. Len(ds) :
        /\ ds[n].content = "tool"
        /\ \A m \in 1 .. (n - 1) :
               ~(ds[m].content = "tool" /\ ds[m].slot = ds[n].slot)}

\* The last active tool slot: the slot of the latest fragment that opened a
\* block.
LastActiveSlot(ds) ==
    LET ps == NewSlotPositions(ds)
    IN  ds[CHOOSE n \in ps : \A m \in ps : m <= n].slot

\* Delta d ends the stream when it comes in transcoder state s.
Terminates(s, d) ==
    (d.choice /\ d.finish # "") \/ (~d.choice /\ s.done)

\* Delta d, coming in state s, closes a tool block: a text or reasoning
\* fragment while a tool block is the open one, or the terminal sequence
\* after a tool call (of this delta or of an earlier one).
ClosesToolBlock(s, d) ==
    LET toolOpen == BlockOpen(s) /\ s.lastBlockType = "tool"
    IN  \/ d.choice /\ d.content \in {"text", "thinking"} /\ toolOpen
        \/ /\ Terminates(s, d)
           /\ \/ d.content = "none" /\ toolOpen
              \/ /\ d.content = "tool"
                 /\ toolOpen \/ s.toolCallIndexToBlockIndex[d.slot] = -1

\* The content_block_stop that closes the tool block in a step on delta d,
\* among the positions new of the stops the step emitted: the first one when d
\* carries text or reasoning (a second one closes that fragment's own block
\* when d also ends the stream), the last one when d is a tool fragment that
\* ends the stream (an earlier one closes the block open before it).
ToolBlockStop(d, new) ==
    IF d.content = "tool"
    THEN CHOOSE i \in new : \A j \in new : j <= i
    ELSE CHOOSE i \in new : \A j \in new : i <= j

StatedStopReason(reason) ==
    CASE reason = "stop"       -> {"end_turn"}
      [] reason = "tool_calls" -> {"tool_use"}
      [] reason = "max_tokens" -> {"max_tokens"}
      [] reason \in {"length", "stop_sequence"} -> {"max_tokens", "stop_sequence"}
      [] OTHER                 -> {reason}

\* The finish reason the deltas ds carried: the one of the latest delta that
\* has one, "" when none has.
FinishReasonFed(ds) ==
    LET ps == {n \in 1 .. Len(ds) : ds[n].choice /\ ds[n].finish # ""}
    IN  IF ps = {} THEN ""
        ELSE ds[CHOOSE n \in ps : \A m \in ps : m <= n].finish

\* C27: the finish-reason mapping sends "stop" to "end_turn", "tool_calls" to
\* "tool_use", "max_tokens" to "max_tokens" and returns an unrecognized
\* reason unchanged; the stop reason of a message_delta is the stated image
\* of the finish reason the upstream gave up to the delta that produced it.
C27_StopReasonMapping ==
    [][/\ \A r \in {"stop"} \cup OtherFinishReasons :
              StopReasonMap(r) \in StatedStopReason(r)
       /\ \A n \in (Len(events) + 1) .. Len(events') :
              events'[n].type = "message_delta"
                  => events'[n].kind
                         \in StatedStopReason(FinishReasonFed(fed'))]_vars

\* A stream that ended with a finish reason the mapping does not know, after
\* a tool call: the message_delta carries the reason unchanged.
C27_Witness ==
    /\ Len(fed) >= 2
    /\ fed[1].content = "tool"
    /\ fed[Len(fed)].finish = "content_filter"
    /\ \E n \in 1 .. Len(events) :
           events[n] = ClaudeEvent("message_delta", -1, "content_filter", -1)

\* --------------------------------------------- properties, unparsable chunks
\* The scanner delivers a chunk that does not parse as JSON.
UnparsedChunkStep ==
    pc = "stream" /\ stream'.unparsedItems # stream.unparsedItems

\* C28: a chunk that fails to parse as JSON never aborts the stream and never
\* triggers a retry: the scanner goes on to the following chunks, nothing is
\* sent upstream, no retry is counted and no result is set.
C28_UnparsedChunkSkipped ==
    [][UnparsedChunkStep => /\ pc' = "stream"
                            /\ stream'.n = stream.n + 1
                            /\ sends' = sends
                            /\ sensRetry' = sensRetry
                            /\ reissued' = reissued
                            /\ result' = result]_vars

\* The first chunk did not parse, the second chunk was delivered after it and
\* the stream ended well, the request sent once.
C28_Witness ==
    /\ variant \in {"ContentFilter", "Buffered"}
    /\ stream.unparsedItems = {1}
    /\ stream.n = 2
    /\ pc = "done"
    /\ result.kind = "ok"
    /\ sends = 1
    /\ sensRetry = 0

\* ------------------------------------------- properties, limited key slots
\* C29: within one request a key slot that answered with a 429 the handler
\* retries on is never selected again by the request's key rotation.
C29_LimitedKeyNotReselected ==
    [][(pc \in {"handle429", "ratelimit"} /\ keyIndex' # keyIndex)
          => keyIndex' \notin limited]_vars

\* ------------------------------------- properties, 429 without code 14013
\* A 429 whose body does not carry code 14013 is with the handler of a
\* part_004 revision, or was answered by it.
Other429(where) ==
    /\ variant \in {"QuotaIOA", "Quota"}
    /\ pc = where
    /\ respKind \in {"other429", "unavail429", "hang429"}

SendsNow(p) == req[p].pc = "send" /\ req'[p].pc # "send"

\* C31: for a model that is not an -ioa model, part_004's first revision
\* never sends an upstream request with a key slot whose cooldown deadline is
\* later than the time of sending, whatever other requests of the channel do
\* between the check and the send.
C31_NoSendOnCooledKey ==
    [][\A p \in Requests :
          (variant = "QuotaIOA" /\ ~isIOA /\ ~crashed /\ SendsNow(p))
              => cooldownUntil[req[p].key] <= now]_vars

\* ------------------------------------- properties, requests sent in total
\* The most upstream requests one logical request may send.
MaxSends(v) == 1 + MaxSensitiveRetries(v) + MaxRateLimitRetries(v)

\* C32: one logical request sends at most 1 + MaxSensitiveRetries +
\* MaxRateLimitRetries upstream requests: a sensitive retry that enters
\* DoRequest again leaves the rate-limit counter as it is, neither counter
\* ever decreases, and every step of the request brings it nearer to its end.
C32_TotalSendsBounded ==
    [][/\ sends' <= MaxSends(variant)
       /\ pc = "sensitive" => rlRetry' = rlRetry
       /\ rlRetry' >= rlRetry /\ sensRetry' >= sensRetry
       /\ sends' # sends => /\ sends' = sends + 1
                            /\ sends' <= 1 + rlRetry' + sensRetry'
       /\ pc' # pc => Rank' < Rank]_vars

\* adaptor.go at the bound: five rotations after a 429 and ten sensitive
\* retries were made, sixteen requests sent.
C32_Witness ==
    /\ variant = "ContentFilter"
    /\ pc = "done"
    /\ rlRetry = MaxRateLimitRetries(variant)
    /\ sensRetry = MaxSensitiveRetries(variant)
    /\ sends = MaxSends(variant)

\* ------------------------------------------------- the key switch on its own
\* A switchToNextAvailableKey that moves the polling index when it fails.
switchToNextAvailableKeyMovesIndex ==
    /\ pc = "switch"
    /\ LET next == SwitchTarget(cooldownUntil)
       IN  IF next = -1
           THEN /\ pc' = "failed"
                /\ pollingIndex' = (keyIndex + 1) % nKeys
                /\ UNCHANGED infoVars
           ELSE /\ pc' = "switched"
                /\ SwitchTo(next)
    /\ UNCHANGED <<fixedVars, convVars, lockVars, bodyVars, respBody,
                   disableVars, statusList, cooldownUntil, now, rlRetry,
                   sensRetry, reissued, respKind, result, cancelled, stream,
                   clientOut, sends, rotations, onlyQuota, limited>>

\* switchToNextAvailableKey, called for the request's current key: the error
\* return leaves everything as it is, the nil return has assigned the key.
switchToNextAvailableKey ==
    /\ pc = "switch"
    /\ LET next == SwitchTarget(cooldownUntil)
       IN  IF next = -1
           THEN /\ pc' = "failed"
                /\ UNCHANGED <<pollingIndex, infoVars>>
           ELSE /\ pc' = "switched"
                /\ SwitchTo(next)
    /\ UNCHANGED <<fixedVars, convVars, lockVars, bodyVars, respBody,
                   disableVars, statusList, cooldownUntil, now, rlRetry,
                   sensRetry, reissued, respKind, result, cancelled, stream,
                   clientOut, sends, rotations, onlyQuota, limited>>

\* The key switched to answers 429 as well: setKeyCooldown for it, and the
\* handler calls the switch again.
KeyLimited ==
    /\ pc = "switched"
    /\ rotations < MaxSwitchKeys
    /\ \E t \in FutureTimes :
         cooldownUntil' = SetKeyCooldown(cooldownUntil, keyIndex, t)
    /\ rotations' = rotations + 1
    /\ pc' = "switch"
    /\ UNCHANGED <<fixedVars, convVars, lockVars, bodyVars, respBody,
                   disableVars, statusList, pollingIndex, infoVars, now,
                   rlRetry, sensRetry, reissued, respKind, result, cancelled,
                   stream, clientOut, sends, onlyQuota, limited>>

\* The switch is called with any key of the channel in use, on a key state
\* earlier requests left in any shape.
SInit ==
    /\ ConvInit
    /\ NoImport
    /\ variant \in {"ContentFilter", "QuotaIOA", "Quota"}
    /\ nKeys \in 1 .. MaxSwitchKeys
    /\ statusList \in [0 .. (nKeys - 1) ->
                          {ChannelStatusEnabled, ChannelStatusAutoDisabled}]
    /\ now = 1
    /\ cooldownUntil \in [0 .. (nKeys - 1) -> {0, now, MaxTime + 1}]
    /\ pollingIndex \in 0 .. (nKeys - 1)
    /\ keyIndex \in 0 .. (nKeys - 1)
    /\ apiKey = KeyAt(keyIndex)
    /\ isIOA \in (IF variant = "QuotaIOA" THEN BOOLEAN ELSE {FALSE})
    /\ relayFormat = "openai"
    /\ rlRetry = 0
    /\ sensRetry = 0
    /\ reissued = FALSE
    /\ pc = "switch"
    /\ respKind = "quota429"
    /\ result = NoResult
    /\ cancelled = FALSE
    /\ stream = NoStream
    /\ clientOut = <<>>
    /\ sends = 1
    /\ rotations = 0
    /\ onlyQuota = TRUE
    /\ limited = {}
    /\ respBody = NoBody
    /\ cachedBody = NoBytes
    /\ reqBody = NoBytes
    /\ sentBody = NoBytes
    /\ disabledReason = [k \in 0 .. (nKeys - 1) |-> ""]
    /\ disabledTime = [k \in 0 .. (nKeys - 1) |-> 0]
    /\ NoConcurrency

SNext == switchToNextAvailableKey \/ KeyLimited

SSpec == SInit /\ [][SNext]_vars

\* ------------------------------------------- properties, the key switch
\* The slot test of the switch as the revisions make it: the slot is not
\* disabled and, where the cooldown is tested, its deadline is not later than
\* the current time.
EligibleSlot(k) ==
    /\ statusList[k] = ChannelStatusEnabled
    /\ (variant = "QuotaIOA" /\ isIOA) \/ cooldownUntil[k] <= now

\* Slot k is disabled or in cooldown.
OutOfUse(k) ==
    statusList[k] # ChannelStatusEnabled \/ cooldownUntil[k] > now

\* C33: a switchToNextAvailableKey that fails leaves the request's API key,
\* the request's key index and the channel's polling index unchanged; it
\* fails only on a channel of one key or with every other slot disabled or in
\* cooldown.
C33_FailedSwitchChangesNothing ==
    [][(pc = "switch" /\ pc' = "failed")
          => /\ apiKey' = apiKey
             /\ keyIndex' = keyIndex
             /\ pollingIndex' = pollingIndex
             /\ \/ nKeys = 1
                \/ \A k \in KeySlots \ {keyIndex} : OutOfUse(k)]_vars

\* Three keys, key 1 in use and the polling index at 2; the switch failed
\* with slot 0 disabled and slot 2 in cooldown, and nothing moved.
C33_Witness ==
    /\ pc = "failed"
    /\ nKeys = 3
    /\ keyIndex = 1
    /\ apiKey = KeyAt(1)
    /\ pollingIndex = 2
    /\ statusList[0] = ChannelStatusAutoDisabled
    /\ statusList[2] = ChannelStatusEnabled
    /\ cooldownUntil[2] > now

\* C34: a switchToNextAvailableKey that succeeds on n keys with current index
\* c selects the first eligible slot of the cyclic order c+1, ..., c+n-1
\* (mod n), makes the key stored at that slot the request's API key and sets
\* the polling index to (selected + 1) mod n.
C34_SwitchSelectsFirstEligible ==
    [][(pc = "switch" /\ pc' = "switched")
          => \E i \in 1 .. (nKeys - 1) :
                /\ keyIndex' = (keyIndex + i) % nKeys
                /\ EligibleSlot(keyIndex')
                /\ \A j \in 1 .. (i - 1) :
                       ~EligibleSlot((keyIndex + j) % nKeys)
                /\ apiKey' = KeyAt(keyIndex')
                /\ pollingIndex' = (keyIndex' + 1) % nKeys]_vars

\* Three keys, all usable, key 1 in use: the switch took slot 2, the first of
\* the order 2, 0, and the polling index wrapped around to 0.
C34_Witness ==
    /\ pc = "switched"
    /\ rotations = 0
    /\ nKeys = 3
    /\ \A k \in KeySlots : EligibleSlot(k)
    /\ keyIndex = 2
    /\ apiKey = KeyAt(2)
    /\ pollingIndex = 0

\* --------------------------------------- properties, chunks handed onwards
\* The chunk numbers handed to openai.HandleStreamFormat, in the order of the
\* calls (0: a call with the empty string).
RECURSIVE ChunkIndices(_)
ChunkIndices(out) ==
    IF out = <<>> THEN <<>>
    ELSE (IF Head(out).type = "chunk" THEN <<Head(out).index>> ELSE <<>>)
             \o ChunkIndices(Tail(out))

\* The calls made for a chunk: the ones that do not carry the empty string.
HandedOn == SelectSeq(ChunkIndices(clientOut), LAMBDA i : i # 0)

\* Sequence a with its last element left out.
Front(a) == IF a = <<>> THEN <<>> ELSE SubSeq(a, 1, Len(a) - 1)

\* C35: in an attempt that ended without a detection every non-empty chunk
\* but the final one was handed to the stream-format handler exactly once
\* and in arrival order, and the final one at most once, after the others.
C35_ChunksForwardedOnce ==
    (pc = "done" /\ result.kind = "ok")
        => \/ HandedOn = stream.streamItems
           \/ HandedOn = Front(stream.streamItems)

\* ------------------------------------------------------- the backup import
\* The placeholder an export writes in place of a secret.
Redacted == "[REDACTED]"

\* The tables whose records carry a secret (password or key).
SecretTables == {"users", "channels", "tokens"}

\* The secrets a row of the database holds; a token key of a char column may
\* come padded.
RowSecrets(t) ==
    CASE t = "users" -> {"pw"}
      [] t = "channels" -> {"key"}
      [] t = "tokens" -> {"sk-1", "sk-1 "}
      [] OTHER -> {"-"}

\* What the secret field of a record of a backup file may read.
FileSecrets(t) ==
    IF t \in SecretTables THEN RowSecrets(t) \cup {Redacted} ELSE RowSecrets(t)

\* strings.TrimSpace on the keys of the model.
TrimSpace(key) == IF key = "sk-1 " THEN "sk-1" ELSE key

\* Sequences over S of at most n elements.
SeqUpTo(S, n) == UNION {[1 .. m -> S] : m \in 0 .. n}

\* The secret field an export writes for a row.
exportSecret(includeSensitive, secret) ==
    IF includeSensitive THEN secret ELSE Redacted

\* The data of the file ExportBackup writes for the rows of the database.
ExportBackup(includeSensitive, rows) ==
    [t \in TableSet |->
        [i \in 1 .. Len(rows[t]) |->
            IF t \in SecretTables
            THEN exportSecret(includeSensitive, rows[t][i])
            ELSE rows[t][i]]]

\* The files of at most MaxRecords records whose records of table t are
\* drawn from secrets[t].
FilesOver(secrets) ==
    UNION {UNION {UNION {UNION {
        {[users |-> u, channels |-> c, tokens |-> k, options |-> o,
          prefill_groups |-> g] :
            g \in SeqUpTo(secrets["prefill_groups"],
                          MaxRecords - Len(u) - Len(c) - Len(k) - Len(o))} :
            o \in SeqUpTo(secrets["options"],
                          MaxRecords - Len(u) - Len(c) - Len(k))} :
            k \in SeqUpTo(secrets["tokens"], MaxRecords - Len(u) - Len(c))} :
            c \in SeqUpTo(secrets["channels"], MaxRecords - Len(u))} :
            u \in SeqUpTo(secrets["users"], MaxRecords)}

\* The rows a database may hold, and the files an import may be given.
DatabaseRows == FilesOver([t \in TableSet |-> RowSecrets(t)])

BackupFiles == FilesOver([t \in TableSet |-> FileSecrets(t)])

\* The files ExportBackup writes.
ExportedFiles ==
    {ExportBackup(includeSensitive, rows) :
        includeSensitive \in BOOLEAN, rows \in DatabaseRows}

\* The answers of a query: found, gorm.ErrRecordNotFound, any other error.
QueryErrors == {"nil", "not_found", "error"}

\* The counters with one more record under the outcome.
CountOne(counts, outcome) == [counts EXCEPT ![outcome] = @ + 1]

\* The end of a turn of an import loop: the record is counted under an
\* outcome; write: a row was saved or created in the transaction; processed:
\* the key was noted in processedKeys.
Counted(counts, outcome, write, processed) ==
    [result |-> CountOne(counts, outcome), write |-> write,
     processed |-> processed]

\* A record that matches an existing row, with the continue after a failed
\* save left out.
ExistingFallsThrough(counts, strategy, dryRun, saveOk) ==
    IF strategy = "skip" THEN Counted(counts, "skipped", FALSE, TRUE)
    ELSE IF ~dryRun /\ ~saveOk
    THEN Counted(CountOne(counts, "failed"), "updated", FALSE, TRUE)
    ELSE Counted(counts, "updated", ~dryRun, TRUE)

\* A record that matches an existing row.
Existing(counts, strategy, dryRun, saveOk) ==
    IF strategy = "skip" THEN Counted(counts, "skipped", FALSE, TRUE)
    ELSE IF ~dryRun /\ ~saveOk THEN Counted(counts, "failed", FALSE, FALSE)
    ELSE Counted(counts, "updated", ~dryRun, TRUE)

\* A record that matches no row, created in a preview as well.
MissingCreatesInPreview(counts, dryRun, createOk) ==
    IF ~createOk THEN Counted(counts, "failed", FALSE, FALSE)
    ELSE Counted(counts, "created", TRUE, TRUE)

\* A record that matches no row.
Missing(counts, dryRun, createOk) ==
    IF ~dryRun /\ ~createOk THEN Counted(counts, "failed", FALSE, FALSE)
    ELSE Counted(counts, "created", ~dryRun, TRUE)

\* One turn of importUsers' loop: a query error counts as no match, and an
\* overwrite first checks the new username and aff_code against other users.
importUsers(counts, secret, errById, errByKey, conflict, writeOk, strategy, dryRun) ==
    IF secret = Redacted THEN Counted(counts, "skipped", FALSE, FALSE)
    ELSE IF errById = "nil" \/ errByKey = "nil"
    THEN Existing(counts, strategy, dryRun, ~conflict /\ writeOk)
    ELSE Missing(counts, dryRun, writeOk)

\* One turn of importChannels' loop without the test for the placeholder.
importChannelsNoTest(counts, secret, errById, writeOk, strategy, dryRun) ==
    IF errById = "nil" THEN Existing(counts, strategy, dryRun, writeOk)
    ELSE IF errById = "not_found" THEN Missing(counts, dryRun, writeOk)
    ELSE Counted(counts, "failed", FALSE, FALSE)

\* One turn of importChannels' loop.
importChannels(counts, secret, errById, writeOk, strategy, dryRun) ==
    IF secret = Redacted THEN Counted(counts, "skipped", FALSE, FALSE)
    ELSE IF errById = "nil" THEN Existing(counts, strategy, dryRun, writeOk)
    ELSE IF errById = "not_found" THEN Missing(counts, dryRun, writeOk)
    ELSE Counted(counts, "failed", FALSE, FALSE)

\* A record looked up by id and then by its unique column.
ByIdThenByKey(counts, errById, errByKey, writeOk, strategy, dryRun) ==
    IF errById = "nil" THEN Existing(counts, strategy, dryRun, writeOk)
    ELSE IF errById = "not_found"
    THEN IF errByKey = "nil" THEN Existing(counts, strategy, dryRun, writeOk)
         ELSE IF errByKey = "not_found" THEN Missing(counts, dryRun, writeOk)
         ELSE Counted(counts, "failed", FALSE, FALSE)
    ELSE Counted(counts, "failed", FALSE, FALSE)

\* One turn of importTokens' loop.
importTokens(counts, secret, processedKeys, errById, errByKey, writeOk, strategy, dryRun) ==
    IF secret = Redacted THEN Counted(counts, "skipped", FALSE, FALSE)
    ELSE IF TrimSpace(secret) \in processedKeys
    THEN Counted(counts, "skipped", FALSE, FALSE)
    ELSE ByIdThenByKey(counts, errById, errByKey, writeOk, strategy, dryRun)

\* One turn of importOptions' loop.
importOptions(counts, errById, writeOk, strategy, dryRun) ==
    IF errById = "nil" THEN Existing(counts, strategy, dryRun, writeOk)
    ELSE IF errById = "not_found" THEN Missing(counts, dryRun, writeOk)
    ELSE Counted(counts, "failed", FALSE, FALSE)

\* One turn of importPrefillGroups' loop.
importPrefillGroups(counts, errById, errByKey, writeOk, strategy, dryRun) ==
    ByIdThenByKey(counts, errById, errByKey, writeOk, strategy, dryRun)

\* One turn of the loop of table t's import function.
ImportOne(t, counts, secret, processedKeys, errById, errByKey, conflict, writeOk, strategy, dryRun) ==
    CASE t = "users" ->
            importUsers(counts, secret, errById, errByKey, conflict, writeOk,
                        strategy, dryRun)
      [] t = "channels" ->
            importChannels(counts, secret, errById, writeOk, strategy, dryRun)
      [] t = "tokens" ->
            importTokens(counts, secret, processedKeys, errById, errByKey,
                         writeOk, strategy, dryRun)
      [] t = "options" ->
            importOptions(counts, errById, writeOk, strategy, dryRun)
      [] OTHER ->
            importPrefillGroups(counts, errById, errByKey, writeOk, strategy,
                                dryRun)

\* The first table from index i on that the file has records of, or one past
\* the last table.
RECURSIVE NextTable(_, _)
NextTable(file, i) ==
    IF i > Len(Tables) THEN i
    ELSE IF Len(file[Tables[i]]) > 0 THEN i
    ELSE NextTable(file, i + 1)

\* ImportBackup moves to the first table from index i on that has records,
\* or to the end of the tables.
EnterTable(locals, file, i) ==
    LET next == NextTable(file, i) IN
    IF next > Len(Tables)
    THEN [locals EXCEPT !.pc = "finish", !.table = next, !.pos = 0]
    ELSE [locals EXCEPT !.pc = "table", !.table = next, !.pos = 0,
                        !.result = NoCounts, !.processedKeys = {}]

\* An import function returned, and ImportBackup goes on to the next table
\* whatever the result.
TableDoneGoesOn(locals, file, dryRun) ==
    EnterTable([locals EXCEPT !.results = Append(@,
                   [table |-> Tables[locals.table],
                    total |-> Len(file[Tables[locals.table]]),
                    created |-> locals.result.created,
                    updated |-> locals.result.updated,
                    skipped |-> locals.result.skipped,
                    failed |-> locals.result.failed])],
               file, locals.table + 1)

\* An import function returned: its result is appended, and a failed record
\* of a real import rolls the transaction back and answers 500.
TableDone(locals, file, dryRun) ==
    LET t == Tables[locals.table]
        withResult ==
            [locals EXCEPT !.results = Append(@,
                [table |-> t, total |-> Len(file[t]),
                 created |-> locals.result.created,
                 updated |-> locals.result.updated,
                 skipped |-> locals.result.skipped,
                 failed |-> locals.result.failed])]
    IN
    IF locals.result.failed > 0 /\ ~dryRun
    THEN [withResult EXCEPT !.pc = "done", !.tx = "rolled_back",
                            !.writes = NoWrites, !.response = "500"]
    ELSE EnterTable(withResult, file, locals.table + 1)

\* ImportBackup up to the first table: the request and the file are checked
\* and the transaction is begun.
BeginImport ==
    /\ imp.pc = "start"
    /\ \E fileOk \in BOOLEAN, beginOk \in BOOLEAN :
          imp' = IF importIn.strategy \notin {"skip", "overwrite"}
                 THEN [imp EXCEPT !.pc = "done", !.response = "400"]
                 ELSE IF ~fileOk
                 THEN [imp EXCEPT !.pc = "done", !.response = "400"]
                 ELSE IF ~beginOk
                 THEN [imp EXCEPT !.pc = "done", !.response = "500"]
                 ELSE EnterTable([imp EXCEPT !.tx = "open"], importIn.file, 1)
    /\ UNCHANGED <<importIn, db>>

\* The record the loop of the current table is at.
CurrentRecord == importIn.file[Tables[imp.table]][imp.pos + 1]

\* One record of the current table is imported; after the table's last
\* record the import function returns.
ImportRecord ==
    /\ imp.pc = "table"
    /\ \E errById \in QueryErrors, errByKey \in QueryErrors,
          conflict \in BOOLEAN, writeOk \in BOOLEAN :
          LET t == Tables[imp.table]
              one == ImportOne(t, imp.result, CurrentRecord,
                               imp.processedKeys, errById, errByKey, conflict,
                               writeOk, importIn.strategy, importIn.dryRun)
              counted ==
                  [imp EXCEPT
                      !.pos = @ + 1,
                      !.result = one.result,
                      !.writes[t] = IF one.write THEN @ + 1 ELSE @,
                      !.processedKeys =
                          IF t = "tokens" /\ one.processed
                          THEN @ \cup {TrimSpace(CurrentRecord)} ELSE @]
          IN imp' = IF counted.pos = Len(importIn.file[t])
                    THEN TableDone(counted, importIn.file, importIn.dryRun)
                    ELSE counted
    /\ UNCHANGED <<importIn, db>>

\* The end of ImportBackup: a preview is rolled back, a real import is
\* committed.
FinishImport ==
    /\ imp.pc = "finish"
    /\ \E commitOk \in BOOLEAN :
          IF importIn.dryRun
          THEN /\ imp' = [imp EXCEPT !.pc = "done", !.tx = "rolled_back",
                                     !.writes = NoWrites, !.response = "200"]
               /\ db' = db
          ELSE IF commitOk
          THEN /\ imp' = [imp EXCEPT !.pc = "done", !.tx = "committed",
                                     !.response = "200"]
               /\ db' = [t \in TableSet |-> db[t] + imp.writes[t]]
          ELSE /\ imp' = [imp EXCEPT !.pc = "done", !.tx = "commit_failed",
                                     !.writes = NoWrites, !.response = "500"]
               /\ db' = db
    /\ UNCHANGED importIn

\* What no step of an import changes.
BRest == UNCHANGED <<variant, nKeys, isIOA, now, chanVars, soloVars,
                     disabledReason, disabledTime, convVars, lockVars>>

\* No request is being relayed.
NoRelay ==
    /\ variant = "ContentFilter"
    /\ nKeys = 1
    /\ statusList = [k \in {0} |-> ChannelStatusEnabled]
    /\ cooldownUntil = [k \in {0} |-> 0]
    /\ pollingIndex = 0
    /\ now = 1
    /\ keyIndex = 0
    /\ apiKey = KeyAt(0)
    /\ isIOA = FALSE
    /\ relayFormat = "openai"
    /\ rlRetry = 0
    /\ sensRetry = 0
    /\ reissued = FALSE
    /\ pc = "done"
    /\ respKind = "ok200"
    /\ result = NoResult
    /\ cancelled = FALSE
    /\ stream = NoStream
    /\ clientOut = <<>>
    /\ sends = 0
    /\ rotations = 0
    /\ onlyQuota = FALSE
    /\ limited = {}
    /\ respBody = NoBody
    /\ cachedBody = NoBytes
    /\ reqBody = NoBytes
    /\ sentBody = NoBytes
    /\ disabledReason = [k \in {0} |-> ""]
    /\ disabledTime = [k \in {0} |-> 0]
    /\ NoConcurrency

\* An import request: a file ExportBackup wrote, with or without the secrets,
\* or a file put together by hand.
BInit ==
    /\ NoRelay
    /\ ConvInit
    /\ importIn \in [strategy : {"skip", "overwrite", "merge"},
                     dryRun : BOOLEAN,
                     file : ExportedFiles \cup BackupFiles]
    /\ imp = NoLocals
    /\ db = NoWrites

BNext == (BeginImport \/ ImportRecord \/ FinishImport) /\ BRest

BSpec == BInit /\ [][BNext]_vars

\* ------------------------------------------------ properties, backup import
\* The sum of the four counters of an import result.
Counted4(r) == r.created + r.updated + r.skipped + r.failed

\* The counters of the import function that ran last: of the result it
\* returned, if it did, and of the running table otherwise.
CountersAfter(before, after) ==
    IF Len(after.results) > Len(before.results)
    THEN LET r == after.results[Len(after.results)] IN
         [created |-> r.created, updated |-> r.updated,
          skipped |-> r.skipped, failed |-> r.failed]
    ELSE after.result

\* A turn of an import loop.
RecordImported == imp.pc = "table" /\ imp' # imp

\* C36: in every strategy and in preview or real mode every record of a table
\* is counted under exactly one outcome: a turn of the loop adds one to
\* exactly one of the four counters, and every returned result has
\* created + updated + skipped + failed = total, the table's records.
C36_EveryRecordCountedOnce ==
    /\ [](\A i \in 1 .. Len(imp.results) :
            /\ imp.results[i].total = Len(importIn.file[imp.results[i].table])
            /\ Counted4(imp.results[i]) = imp.results[i].total)
    /\ [][RecordImported =>
            \E outcome \in {"created", "updated", "skipped", "failed"} :
                CountersAfter(imp, imp') = CountOne(imp.result, outcome)]_vars

\* An overwriting import returned the result of a table of three records:
\* one created, one updated, one failed.
C36_Witness ==
    /\ importIn.strategy = "overwrite"
    /\ \E i \in 1 .. Len(imp.results) :
          /\ imp.results[i].created = 1
          /\ imp.results[i].updated = 1
          /\ imp.results[i].failed = 1
          /\ imp.results[i].total = 3

\* C37: an import in preview mode never changes the database: at no moment
\* has it saved or created a row of any table, inside the transaction or for
\* good, it never commits, and once it has ended a transaction that was
\* begun is rolled back.
C37_DryRunChangesNothing ==
    importIn.dryRun =>
        /\ imp.writes = NoWrites
        /\ db = NoWrites
        /\ imp.tx \in {"none", "open", "rolled_back"}
        /\ (imp.pc = "done" /\ imp.tx # "none") => imp.tx = "rolled_back"

\* An overwriting preview ended after records it reported as created and as
\* updated.
C37_Witness ==
    /\ importIn.dryRun
    /\ importIn.strategy = "overwrite"
    /\ imp.pc = "done"
    /\ imp.response = "200"
    /\ imp.tx = "rolled_back"
    /\ \E i \in 1 .. Len(imp.results) : imp.results[i].created > 0
    /\ \E i \in 1 .. Len(imp.results) : imp.results[i].updated > 0

\* The tables of the file that have records, in the order of the import.
TablesOfFile == SelectSeq(Tables, LAMBDA t : Len(importIn.file[t]) > 0)

\* The results of the tables handled so far belong to the first tables of
\* the file, in order.
ResultsInOrder ==
    /\ Len(imp.results) <= Len(TablesOfFile)
    /\ \A i \in 1 .. Len(imp.results) : imp.results[i].table = TablesOfFile[i]

\* C38: a real import is all-or-nothing across tables. Tables are handled in
\* the order users, channels, tokens, options, prefill groups; once a table
\* returned with a failed record the import has ended with the transaction
\* rolled back, no later table was handled and no row of any table is
\* changed; rows are changed for good only by a commit, and a commit happens
\* only after every table of the file returned with zero failures.
C38_AllOrNothing ==
    ~importIn.dryRun =>
        /\ ResultsInOrder
        /\ \A i \in 1 .. Len(imp.results) :
              imp.results[i].failed > 0 =>
                  /\ i = Len(imp.results)
                  /\ imp.pc = "done"
                  /\ imp.tx = "rolled_back"
                  /\ imp.response = "500"
                  /\ imp.writes = NoWrites
                  /\ db = NoWrites
        /\ db # NoWrites => imp.tx = "committed"
        /\ imp.tx = "committed" =>
              /\ Len(imp.results) = Len(TablesOfFile)
              /\ \A i \in 1 .. Len(imp.results) : imp.results[i].failed = 0

\* A real import created a user, then had a channel fail, and ended rolled
\* back with the tokens of the file not handled.
C38_Witness ==
    /\ ~importIn.dryRun
    /\ Len(importIn.file["tokens"]) > 0
    /\ Len(imp.results) = 2
    /\ imp.results[1].table = "users"
    /\ imp.results[1].created = 1
    /\ imp.results[2].table = "channels"
    /\ imp.results[2].failed = 1
    /\ imp.tx = "rolled_back"
    /\ db = NoWrites

\* The files ExportBackup writes when the secrets are not included.
RedactedExports == {ExportBackup(FALSE, rows) : rows \in DatabaseRows}

\* The loop turn at hand handles a record whose secret is the placeholder.
RedactedRecordImported == RecordImported /\ CurrentRecord = Redacted

\* C39: a record whose password or key is "[REDACTED]" is counted as skipped
\* and no row is saved or created for it; so the import of a file that was
\* exported without the secrets writes no row of users, channels or tokens,
\* in the transaction or for good.
C39_RedactedNeverWritten ==
    /\ [][RedactedRecordImported =>
            /\ CountersAfter(imp, imp') = CountOne(imp.result, "skipped")
            /\ imp'.writes \in {imp.writes, NoWrites}
            /\ db' = db]_vars
    /\ [](importIn.file \in RedactedExports =>
            \A t \in SecretTables : imp.writes[t] = 0 /\ db[t] = 0)

\* An overwriting import of a file exported without the secrets was
\* committed: the user and the token of the file were skipped, the option was
\* created.
C39_Witness ==
    /\ importIn.file \in RedactedExports
    /\ importIn.strategy = "overwrite"
    /\ imp.tx = "committed"
    /\ Len(imp.results) = 3
    /\ imp.results[1].table = "users" /\ imp.results[1].skipped = 1
    /\ imp.results[2].table = "tokens" /\ imp.results[2].skipped = 1
    /\ imp.results[3].table = "options" /\ imp.results[3].created = 1
    /\ db = [NoWrites EXCEPT !["options"] = 1]

=============================================================================
